---- MODULE Spec2Model ----
(***************************************************************************)
(* A model of the editing core of rune: the text buffer (src/src/buffer.rs) *)
(* the command keymap (src/src/keymap.rs) and the editor state machine with *)
(* its undo/redo engine (src/src/editor.rs), driven by the input loop       *)
(* (src/src/app.rs).                                                         *)
(*                                                                           *)
(* Text is a sequence of characters, each a one-character string.  The       *)
(* document alphabet is: the letters "a" and "b", the space " ", the tab     *)
(* "\t", the line break "\n" and WIDE, which stands for one double-width     *)
(* ideograph (three bytes of UTF-8, alphanumeric).  No character of the      *)
(* alphabet is a combining mark, so every character is a grapheme cluster    *)
(* of its own.  Columns, byte offsets and character indices are 0-based as   *)
(* in the source; sequences are 1-based, so s[a..b] is SubSeq(s, a+1, b).    *)
(* An Option is a sequence of length 0 (None) or 1 (Some).                   *)
(***************************************************************************)
EXTENDS Integers, Sequences, FiniteSets, TLC

NL == "\n"
WIDE == "W"

\* the value of F at v, with v evaluated once: a `let` binding of the source
Bind(v, F(_)) == CHOOSE r \in {F(x) : x \in {v}} : TRUE

Min(a, b) == IF a < b THEN a ELSE b
Max(a, b) == IF a > b THEN a ELSE b
saturating_sub(a, b) == IF a > b THEN a - b ELSE 0

(***************************************************************************)
(* Characters                                                              *)
(***************************************************************************)
\* char::len_utf8
len_utf8(ch) == IF ch = WIDE THEN 3 ELSE 1

RECURSIVE str_len(_)
\* str::len, the length in bytes
str_len(s) == IF s = <<>> THEN 0 ELSE len_utf8(Head(s)) + str_len(Tail(s))

\* c.is_alphanumeric() || c == '_', on the document alphabet
is_word_char(ch) == ch \in {"a", "b", WIDE}

\* UnicodeWidthChar::width(ch).unwrap_or(0).max(1)
char_width(ch) == IF ch = WIDE THEN 2 ELSE 1

\* s.replace('\r', "")
RECURSIVE strip_cr(_)
strip_cr(s) ==
    IF s = <<>> THEN <<>>
    ELSE IF Head(s) = "\r" THEN strip_cr(Tail(s))
    ELSE <<Head(s)>> \o strip_cr(Tail(s))

\* the number of characters of s[..byte]; the slice is on a character
\* boundary in every call the buffer makes
chars_count(s, byte) ==
    CHOOSE k \in 0..Len(s) : str_len(SubSeq(s, 1, k)) = Min(byte, str_len(s))

(***************************************************************************)
(* Buffer (a rope of characters)                                           *)
(***************************************************************************)
TABSTOP == 4

\* gw_at with a tab as wide as a whole tab stop wherever it starts
gw_at_whole_tab(col, g) == IF g = "\t" THEN TABSTOP ELSE char_width(g)

gw_at(col, g) ==
    IF g = "\t" THEN ((col \div TABSTOP) + 1) * TABSTOP - col
    ELSE char_width(g)

\* Buffer::from_string
from_string(s) == strip_cr(s)

\* line_count without the line after the last line break
line_count_breaks(rope) == Cardinality({i \in 1..Len(rope) : rope[i] = NL})

\* Rope::len_lines
line_count(rope) == 1 + Cardinality({i \in 1..Len(rope) : rope[i] = NL})

\* the 1-based position of the y-th line break, y >= 1
NthBreak(rope, y) ==
    CHOOSE i \in 1..Len(rope) :
        rope[i] = NL /\ Cardinality({j \in 1..i : rope[j] = NL}) = y

\* Rope::line_to_char; the source never calls it with y > line_count
line_start_char(rope, y) ==
    IF y = 0 THEN 0
    ELSE IF y < line_count(rope) THEN NthBreak(rope, y)
    ELSE Len(rope)

line_string(rope, y) ==
    IF y >= line_count(rope) THEN <<>>
    ELSE LET s == line_start_char(rope, y)
             e == IF y + 1 < line_count(rope) THEN NthBreak(rope, y + 1) - 1
                  ELSE Len(rope)
         IN  SubSeq(rope, s + 1, e)

RECURSIVE width_from(_, _)
width_from(acc, s) ==
    IF s = <<>> THEN acc ELSE width_from(acc + gw_at(acc, Head(s)), Tail(s))

line_width(rope, y) == width_from(0, line_string(rope, y))

RECURSIVE ctlb_walk(_, _, _, _, _)
ctlb_walk(row, col, k, acc, byte_idx) ==
    IF k > Len(row) THEN Min(byte_idx, str_len(row))
    ELSE LET w == gw_at(acc, row[k])
         IN  IF acc + w > col THEN byte_idx
             ELSE ctlb_walk(row, col, k + 1, acc + w, byte_idx + len_utf8(row[k]))

col_to_line_byte(rope, y, col) == ctlb_walk(line_string(rope, y), col, 1, 0, 0)

col_to_char_index(rope, y, col) ==
    Bind(line_string(rope, y), LAMBDA line :
        line_start_char(rope, y)
        + chars_count(line, Min(col_to_line_byte(rope, y, col), str_len(line))))

\* Rope::insert
rope_insert(rope, idx, s) ==
    SubSeq(rope, 1, idx) \o s \o SubSeq(rope, idx + 1, Len(rope))

\* Rope::remove(start..end_)
rope_remove(rope, start, end_) ==
    SubSeq(rope, 1, start) \o SubSeq(rope, end_ + 1, Len(rope))

buf_insert_char(rope, col, y, ch) ==
    rope_insert(rope, col_to_char_index(rope, y, col), <<ch>>)

buf_insert_newline(rope, col, y) ==
    rope_insert(rope, col_to_char_index(rope, y, col), <<NL>>)

delete_line(rope, y) ==
    IF y >= line_count(rope) THEN rope
    ELSE LET start == line_start_char(rope, y)
             end_ == IF y + 1 < line_count(rope) THEN line_start_char(rope, y + 1)
                     ELSE Len(rope)
         IN  rope_remove(rope, start, end_)

RECURSIVE dp_walk(_, _, _, _, _, _, _)
dp_walk(row, col, k, acc, prev_acc, prev_b, cur_b) ==
    IF k > Len(row) \/ acc >= col
    THEN [prev_acc |-> prev_acc, prev_b |-> prev_b, cur_b |-> cur_b]
    ELSE dp_walk(row, col, k + 1, acc + gw_at(acc, row[k]), acc, cur_b,
                 cur_b + len_utf8(row[k]))

\* Buffer::delete_prev: the rope it leaves and the column it returns
delete_prev(rope, col, y) ==
    Bind(line_string(rope, y), LAMBDA row :
        IF row = <<>> \/ col = 0 THEN [rope |-> rope, ret |-> 0]
        ELSE Bind(dp_walk(row, col, 1, 0, 0, 0, 0), LAMBDA w :
            IF w.prev_b < w.cur_b /\ w.cur_b <= str_len(row)
            THEN [rope |-> rope_remove(rope,
                               line_start_char(rope, y) + chars_count(row, w.prev_b),
                               line_start_char(rope, y) + chars_count(row, w.cur_b)),
                  ret |-> w.prev_acc]
            ELSE [rope |-> rope, ret |-> saturating_sub(col, 1)]))

RECURSIVE da_walk(_, _, _, _, _)
\* the byte range <<start_b, end_b>> of the grapheme whose span holds col
da_walk(row, col, k, acc, cur_b) ==
    IF k > Len(row) THEN <<>>
    ELSE LET next == acc + gw_at(acc, row[k])
         IN  IF acc <= col /\ col < next THEN <<cur_b, cur_b + len_utf8(row[k])>>
             ELSE da_walk(row, col, k + 1, next, cur_b + len_utf8(row[k]))

delete_at(rope, col, y) ==
    Bind(line_string(rope, y), LAMBDA row :
        IF row = <<>> THEN rope
        ELSE Bind(da_walk(row, col, 1, 0, 0), LAMBDA se :
            IF se = <<>> THEN rope
            ELSE rope_remove(rope,
                     line_start_char(rope, y) + chars_count(row, se[1]),
                     line_start_char(rope, y) + chars_count(row, se[2]))))

\* Buffer::merge_up: the rope it leaves and the column it returns
merge_up(rope, y) ==
    IF y = 0 \/ y >= line_count(rope) THEN [rope |-> rope, ret |-> 0]
    ELSE LET new_x == line_width(rope, y - 1)
             start == line_start_char(rope, y)
         IN  [rope |-> IF start > 0 THEN rope_remove(rope, start - 1, start) ELSE rope,
              ret |-> new_x]

RECURSIVE pc_walk(_, _, _, _, _)
pc_walk(row, col, k, acc, prev_acc) ==
    IF k > Len(row) \/ acc >= col THEN prev_acc
    ELSE pc_walk(row, col, k + 1, acc + gw_at(acc, row[k]), acc)

prev_col(rope, col, y) ==
    IF col = 0 THEN 0 ELSE pc_walk(line_string(rope, y), col, 1, 0, 0)

RECURSIVE nc_walk(_, _, _, _, _)
nc_walk(row, col, k, acc, len) ==
    IF k > Len(row) THEN len
    ELSE LET w == gw_at(acc, row[k])
         IN  IF acc >= col THEN Min(acc + w, len)
             ELSE nc_walk(row, col, k + 1, acc + w, len)

next_col(rope, col, y) ==
    Bind(line_width(rope, y), LAMBDA len :
        IF col >= len THEN len
        ELSE nc_walk(line_string(rope, y), col, 1, 0, len))

RECURSIVE btc_walk(_, _, _, _, _)
btc_walk(row, target_b, k, acc, bpos) ==
    IF k > Len(row) THEN acc
    ELSE LET next_b == bpos + len_utf8(row[k])
         IN  IF next_b > target_b THEN acc
             ELSE btc_walk(row, target_b, k + 1, acc + gw_at(acc, row[k]), next_b)

byte_to_col_in_line(rope, y, target_b) ==
    btc_walk(line_string(rope, y), target_b, 1, 0, 0)

char_index_at_col(rope, y, col) == col_to_char_index(rope, y, col)

\* remove_char_range with the end of the rope left out of its range check
remove_char_range_before_end(rope, start_char, end_char) ==
    IF start_char < end_char /\ end_char < Len(rope)
    THEN rope_remove(rope, start_char, end_char)
    ELSE rope

remove_char_range(rope, start_char, end_char) ==
    IF start_char < end_char /\ end_char <= Len(rope)
    THEN rope_remove(rope, start_char, end_char)
    ELSE rope

\* Rope::slice(start..end).to_string()
string_from_char_range(rope, start_char, end_char) ==
    SubSeq(rope, start_char + 1, end_char)

clear_line(rope, y) ==
    IF y >= line_count(rope) THEN rope
    ELSE LET start == line_start_char(rope, y)
             chars_in_line == Len(line_string(rope, y))
         IN  IF chars_in_line > 0 THEN rope_remove(rope, start, start + chars_in_line)
             ELSE rope

insert_str_at(rope, y, col, s) ==
    rope_insert(rope,
                IF y >= line_count(rope) THEN Len(rope)
                ELSE col_to_char_index(rope, y, col),
                s)

insert_str_at_line_start(rope, y, s) ==
    LET idx == IF y >= line_count(rope) THEN Len(rope)
               ELSE line_start_char(rope, y)
    IN  rope_insert(rope, idx, s)

(***************************************************************************)
(* Word segmentation (UnicodeSegmentation::split_word_bound_indices) on    *)
(* the document alphabet: letters join letters, spaces join spaces, and    *)
(* there is a boundary around every tab and every ideograph.               *)
(***************************************************************************)
word_joins(c1, c2) ==
    \/ c1 \in {"a", "b"} /\ c2 \in {"a", "b"}
    \/ c1 = " " /\ c2 = " "

\* the last position of the segment that starts at position k
RECURSIVE seg_last(_, _)
seg_last(row, k) ==
    IF k < Len(row) /\ word_joins(row[k], row[k + 1]) THEN seg_last(row, k + 1)
    ELSE k

RECURSIVE segs_from(_, _)
\* the segments from position k on: byte offset i, byte offset end_ = i + seg.len()
\* and whether the segment holds a word character
segs_from(row, k) ==
    IF k > Len(row) THEN <<>>
    ELSE LET e == seg_last(row, k)
         IN  <<[i |-> str_len(SubSeq(row, 1, k - 1)),
                end_ |-> str_len(SubSeq(row, 1, e)),
                is_word |-> \E j \in k..e : is_word_char(row[j])]>>
             \o segs_from(row, e + 1)

split_word_bound_indices(row) == segs_from(row, 1)

RECURSIVE nws_walk(_, _, _, _)
\* the loop of next_word_start: Some(i) of the segment found, or None
nws_walk(segs, k, bi, cur_end) ==
    IF k > Len(segs) THEN <<>>
    ELSE LET s == segs[k]
         IN  IF cur_end = <<>> /\ s.i <= bi /\ bi < s.end_
             THEN nws_walk(segs, k + 1, bi, <<s.end_>>)
             ELSE IF s.i >= bi /\ s.is_word /\ (cur_end = <<>> \/ s.i >= cur_end[1])
                  THEN <<s.i>>
                  ELSE nws_walk(segs, k + 1, bi, cur_end)

next_word_start(rope, col, y) ==
    Bind(line_string(rope, y), LAMBDA row :
        Bind(nws_walk(split_word_bound_indices(row), 1,
                      col_to_line_byte(rope, y, col), <<>>),
             LAMBDA found :
                 byte_to_col_in_line(rope, y,
                     IF found = <<>> THEN str_len(row) ELSE found[1])))

RECURSIVE pws_walk(_, _, _, _)
pws_walk(segs, k, bi, prev) ==
    IF k > Len(segs) \/ segs[k].i >= bi THEN prev
    ELSE pws_walk(segs, k + 1, bi, IF segs[k].is_word THEN <<segs[k].i>> ELSE prev)

prev_word_start(rope, col, y) ==
    Bind(pws_walk(split_word_bound_indices(line_string(rope, y)), 1,
                  col_to_line_byte(rope, y, col), <<>>),
         LAMBDA prev :
             byte_to_col_in_line(rope, y, IF prev = <<>> THEN 0 ELSE prev[1]))

RECURSIVE eow_walk(_, _, _)
\* the loop of end_of_word: cur_word_end.or(after)
eow_walk(segs, k, bi) ==
    IF k > Len(segs) THEN <<>>
    ELSE LET s == segs[k]
         IN  IF s.is_word /\ s.i <= bi /\ bi < s.end_ THEN <<s.end_>>
             ELSE IF s.i >= bi /\ s.is_word THEN <<s.end_>>
             ELSE eow_walk(segs, k + 1, bi)

end_of_word(rope, col, y) ==
    Bind(line_string(rope, y), LAMBDA row :
        Bind(eow_walk(split_word_bound_indices(row), 1, col_to_line_byte(rope, y, col)),
             LAMBDA e :
                 byte_to_col_in_line(rope, y, IF e = <<>> THEN str_len(row) ELSE e[1])))

\* the word segments of a row, in order
word_segs(row) == SelectSeq(split_word_bound_indices(row), LAMBDA s : s.is_word)

(***************************************************************************)
(* Keymap (src/src/keymap.rs)                                              *)
(***************************************************************************)
default_keymap ==
    (<<"h">> :> "MoveLeft") @@ (<<"j">> :> "MoveDown") @@ (<<"k">> :> "MoveUp") @@
    (<<"l">> :> "MoveRight") @@ (<<"0">> :> "LineStart") @@ (<<"$">> :> "LineEnd") @@
    (<<"g", "g">> :> "GotoTop") @@ (<<"G">> :> "GotoBottom") @@
    (<<"i">> :> "EnterInsert") @@ (<<"v">> :> "EnterVisual") @@
    (<<"V">> :> "EnterVisualLine") @@ (<<"a">> :> "Append") @@
    (<<"o">> :> "OpenBelow") @@ (<<"O">> :> "OpenAbove") @@
    (<<"x">> :> "DeleteCharUnder") @@ (<<"d", "d">> :> "DeleteLine") @@
    (<<"d">> :> "OperatorDelete") @@ (<<"c">> :> "OperatorChange") @@
    (<<"y">> :> "OperatorYank") @@ (<<"u">> :> "Undo") @@
    (<<"w">> :> "MoveWordForward") @@ (<<"b">> :> "MoveWordBackward") @@
    (<<"e">> :> "MoveEndWord") @@ (<<":">> :> "CommandPrompt") @@
    (<<"p">> :> "PasteAfter") @@ (<<"P">> :> "PasteBefore")

(***************************************************************************)
(* Editor (src/src/editor.rs).  An editor state is a record e; every       *)
(* method of Editor is an operator from the state before the call to the   *)
(* state after it.  pending_started is TRUE for Some(instant).  panicked   *)
(* records that the call ended in a Rust panic.                            *)
(***************************************************************************)
VisualModes == {"Visual", "VisualLine", "VisualBlock"}
OperatorActions == {"OperatorDelete", "OperatorChange", "OperatorYank"}
MotionActions ==
    {"MoveWordForward", "MoveWordBackward", "MoveEndWord", "LineStart", "LineEnd"}

\* a keymap that load_config has extended from a [normal] section binding
\* "zz" (the configuration file's bindings are inserted into the defaults)
user_keymap == (<<"z", "z">> :> "MoveDown") @@ default_keymap

\* the keymap the editor holds: the built-in defaults, or the defaults
\* extended by a configuration file
keymap(e) == IF e.keymap = "default" THEN default_keymap ELSE user_keymap

\* Editor::new, with the mode the configuration's start_in_insert selects,
\* followed by Editor::open of a file holding text
new_editor(text, start_in_insert) ==
    [buf |-> from_string(text), dirty |-> FALSE, cx |-> 0, cy |-> 0,
     mode |-> IF start_in_insert THEN "Insert" ELSE "Normal",
     pending |-> <<>>, pending_started |-> FALSE, op_pending |-> <<>>,
     clipboard |-> <<>>, clipboard_kind |-> "Charwise", visual_anchor |-> <<>>,
     undo_stack |-> <<>>, redo_stack |-> <<>>,
     undo_group_active |-> FALSE, count_group_active |-> FALSE,
     keymap |-> "default", panicked |-> FALSE]

\* Buffer::to_string: the characters of the rope
to_string(rope) == rope

\* EditorSnapshot::from_editor
from_editor(e) == [text |-> to_string(e.buf), cx |-> e.cx, cy |-> e.cy, mode |-> e.mode]

\* the push of a snapshot that clears the redo stack
\* a push that keeps the redo stack (C8 tells it from the source's)
push_snapshot_keeping_redo(e) == [e EXCEPT !.undo_stack = Append(@, from_editor(e))]

push_snapshot(e) ==
    [e EXCEPT !.undo_stack = Append(@, from_editor(e)), !.redo_stack = <<>>]

on_edit_start(e) ==
    IF e.count_group_active THEN e
    ELSE IF e.mode = "Insert"
         THEN IF ~e.undo_group_active
              THEN [push_snapshot(e) EXCEPT !.undo_group_active = TRUE]
              ELSE e
         ELSE [push_snapshot(e) EXCEPT !.undo_group_active = FALSE]

end_undo_group(e) == [e EXCEPT !.undo_group_active = FALSE]

clamp_cursor(e) ==
    LET max_y == saturating_sub(line_count(e.buf), 1)
        cy == Min(e.cy, max_y)
    IN  [e EXCEPT !.cy = cy, !.cx = Min(e.cx, line_width(e.buf, cy))]

\* the state a snapshot restores, the mode kept
\* a restore that also takes the snapshot's mode (C10 tells it from the source's)
restore_with_mode(e, snap) ==
    [clamp_cursor([e EXCEPT !.buf = from_string(snap.text),
                            !.cx = snap.cx, !.cy = snap.cy, !.mode = snap.mode])
        EXCEPT !.undo_group_active = FALSE]

restore(e, snap) ==
    [clamp_cursor([e EXCEPT !.buf = from_string(snap.text),
                            !.cx = snap.cx, !.cy = snap.cy])
        EXCEPT !.undo_group_active = FALSE]

\* what Editor::undo returns
undo_ret(e) == e.undo_stack # <<>>

\* an undo that saves the current state for redo before it looks at the undo
\* stack (C9 tells it from the source's)
undo_saving_first(e) ==
    LET saved == [e EXCEPT !.redo_stack = Append(@, from_editor(e))]
    IN  IF e.undo_stack # <<>>
        THEN restore([saved EXCEPT !.undo_stack = SubSeq(@, 1, Len(@) - 1)],
                     e.undo_stack[Len(e.undo_stack)])
        ELSE saved

undo(e) ==
    IF e.undo_stack # <<>>
    THEN LET prev == e.undo_stack[Len(e.undo_stack)]
             popped == [e EXCEPT !.undo_stack = SubSeq(@, 1, Len(@) - 1),
                                 !.redo_stack = Append(@, from_editor(e))]
         IN  restore(popped, prev)
    ELSE e

\* what Editor::redo returns
redo_ret(e) == e.redo_stack # <<>>

redo(e) ==
    IF e.redo_stack # <<>>
    THEN LET next == e.redo_stack[Len(e.redo_stack)]
             popped == [e EXCEPT !.redo_stack = SubSeq(@, 1, Len(@) - 1),
                                 !.undo_stack = Append(@, from_editor(e))]
         IN  restore(popped, next)
    ELSE e

\* Editor::save with a file name set; ok tells whether std::fs::write succeeds
save(e, ok) == IF ok THEN [e EXCEPT !.dirty = FALSE] ELSE e

insert_char(e, ch) ==
    Bind(on_edit_start(e), LAMBDA s :
        [s EXCEPT !.buf = buf_insert_char(s.buf, s.cx, s.cy, ch),
                  !.cx = s.cx + char_width(ch),
                  !.dirty = TRUE])

insert_newline(e) ==
    Bind(on_edit_start(e), LAMBDA s :
        [s EXCEPT !.buf = buf_insert_newline(s.buf, s.cx, s.cy),
                  !.cy = s.cy + 1, !.cx = 0, !.dirty = TRUE])

delete_char(e) ==
    Bind(on_edit_start(e), LAMBDA s :
        IF s.cx > 0
        THEN Bind(delete_prev(s.buf, s.cx, s.cy), LAMBDA d :
                 [s EXCEPT !.buf = d.rope, !.cx = d.ret, !.dirty = TRUE])
        ELSE IF s.cy > 0
        THEN Bind(merge_up(s.buf, s.cy), LAMBDA m :
                 [s EXCEPT !.buf = m.rope, !.cy = s.cy - 1, !.cx = m.ret, !.dirty = TRUE])
        ELSE s)

\* a toggle that anchors at the cursor whenever it enters a variant
toggle_visual_mode_reanchoring(e, target) ==
    IF e.mode = target
    THEN [e EXCEPT !.mode = "Normal", !.visual_anchor = <<>>]
    ELSE [e EXCEPT !.mode = target, !.visual_anchor = <<[x |-> e.cx, y |-> e.cy]>>]

toggle_visual_mode(e, target) ==
    IF e.mode \in VisualModes
    THEN IF e.mode = target
         THEN [e EXCEPT !.mode = "Normal", !.visual_anchor = <<>>]
         ELSE [e EXCEPT !.mode = target,
                        !.visual_anchor = IF @ = <<>> THEN <<[x |-> e.cx, y |-> e.cy]>> ELSE @]
    ELSE [e EXCEPT !.mode = target, !.visual_anchor = <<[x |-> e.cx, y |-> e.cy]>>]

\* (a.y, a.x) > (b.y, b.x), the order of Rust tuples
pos_gt(ay, ax, by, bx) == ay > by \/ (ay = by /\ ax > bx)

extract_range(e, sy, sx, ey, ex0, inclusive) ==
    string_from_char_range(e.buf,
        char_index_at_col(e.buf, sy, sx),
        char_index_at_col(e.buf, ey, IF inclusive THEN next_col(e.buf, ex0, ey) ELSE ex0))

delete_range(e, sy, sx, ey, ex0, inclusive) ==
    [e EXCEPT !.buf = remove_char_range(e.buf,
        char_index_at_col(e.buf, sy, sx),
        char_index_at_col(e.buf, ey, IF inclusive THEN next_col(e.buf, ex0, ey) ELSE ex0))]

\* a clipboard kind that looks at the rows of the range only
range_kind_by_rows(e, sy, sx, ey, ex) ==
    IF sy < ey THEN "Linewise" ELSE "Charwise"

\* the clipboard kind of a swept range
range_kind(e, sy, sx, ey, ex) ==
    IF sy < ey /\ sx = 0 /\ ex >= line_width(e.buf, ey) THEN "Linewise" ELSE "Charwise"

\* parts.join("\n") over the lines sy..=ey
RECURSIVE join_lines(_, _, _)
join_lines(rope, sy, ey) ==
    IF sy > ey THEN <<>>
    ELSE IF sy = ey THEN line_string(rope, sy)
    ELSE line_string(rope, sy) \o <<NL>> \o join_lines(rope, sy + 1, ey)

\* n times buf.delete_line(y)
RECURSIVE delete_lines(_, _, _)
delete_lines(rope, y, n) ==
    IF n = 0 THEN rope ELSE delete_lines(delete_line(rope, y), y, n - 1)

\* clipboard.split('\n')
RECURSIVE split_nl(_)
split_nl(s) ==
    IF \A i \in 1..Len(s) : s[i] # NL THEN <<s>>
    ELSE LET k == CHOOSE i \in 1..Len(s) : s[i] = NL /\ \A j \in 1..(i - 1) : s[j] # NL
         IN  <<SubSeq(s, 1, k - 1)>> \o split_nl(SubSeq(s, k + 1, Len(s)))

RECURSIVE paste_block_rows(_, _, _, _)
paste_block_rows(rope, lines, y, col) ==
    IF lines = <<>> \/ y >= line_count(rope) THEN rope
    ELSE paste_block_rows(insert_str_at(rope, y, col, Head(lines)), Tail(lines), y + 1, col)

paste_block_at(e, start_line, col) ==
    [e EXCEPT !.buf = paste_block_rows(e.buf, split_nl(e.clipboard), start_line, col),
              !.cy = start_line, !.cx = col]

\* a paste_after without the early return on an empty clipboard, inserting
\* at the cursor
paste_after_without_return(e) ==
    Bind(on_edit_start(e), LAMBDA s :
        [s EXCEPT !.buf = insert_str_at(s.buf, s.cy, s.cx, s.clipboard),
                  !.dirty = TRUE])

paste_after(e) ==
    IF e.clipboard = <<>> THEN e
    ELSE Bind(on_edit_start(e), LAMBDA s :
        [(IF s.clipboard_kind = "Linewise"
          THEN LET clean == IF s.clipboard[Len(s.clipboard)] = NL
                            THEN SubSeq(s.clipboard, 1, Len(s.clipboard) - 1)
                            ELSE s.clipboard
               IN  [s EXCEPT !.buf = insert_str_at(s.buf, s.cy, line_width(s.buf, s.cy),
                                                   <<NL>> \o clean),
                             !.cy = s.cy + 1, !.cx = 0]
          ELSE IF s.clipboard_kind = "Charwise"
          THEN [s EXCEPT !.buf = insert_str_at(s.buf, s.cy, s.cx, s.clipboard)]
          ELSE paste_block_at(s, s.cy + 1, s.cx))
            EXCEPT !.dirty = TRUE])

paste_before(e) ==
    IF e.clipboard = <<>> THEN e
    ELSE Bind(on_edit_start(e), LAMBDA s :
        [(IF s.clipboard_kind = "Linewise"
          THEN [s EXCEPT !.buf = insert_str_at_line_start(s.buf, s.cy,
                                     s.clipboard \o <<NL>>),
                         !.cx = 0]
          ELSE IF s.clipboard_kind = "Charwise"
          THEN [s EXCEPT !.buf = insert_str_at(s.buf, s.cy, s.cx, s.clipboard)]
          ELSE paste_block_at(s, s.cy, s.cx))
            EXCEPT !.dirty = TRUE])

delete_n_lines(e, count) ==
    Bind(on_edit_start(e), LAMBDA s :
        LET sy == s.cy
            ey == Min(sy + count - 1, saturating_sub(line_count(s.buf), 1))
        IN  Bind(delete_lines(s.buf, sy, IF ey >= sy THEN ey - sy + 1 ELSE 0), LAMBDA rope :
                [s EXCEPT !.clipboard = join_lines(s.buf, sy, ey),
                          !.clipboard_kind = "Linewise",
                          !.buf = rope,
                          !.cy = IF s.cy >= line_count(rope)
                                 THEN saturating_sub(line_count(rope), 1) ELSE s.cy,
                          !.cx = 0, !.dirty = TRUE]))

\* the column of the first word segment of the first row from y on that has one
RECURSIVE find_next_word_start_from(_, _)
find_next_word_start_from(e, y) ==
    IF y >= line_count(e.buf) THEN <<>>
    ELSE Bind(word_segs(line_string(e.buf, y)), LAMBDA ws :
        IF ws # <<>> THEN <<[y |-> y, x |-> byte_to_col_in_line(e.buf, y, ws[1].i)]>>
        ELSE find_next_word_start_from(e, y + 1))

RECURSIVE find_prev_word_start_from(_, _)
find_prev_word_start_from(e, yy) ==
    Bind(IF yy < line_count(e.buf) THEN word_segs(line_string(e.buf, yy)) ELSE <<>>,
         LAMBDA ws :
        IF ws # <<>> THEN <<[y |-> yy, x |-> byte_to_col_in_line(e.buf, yy, ws[Len(ws)].i)]>>
        ELSE IF yy = 0 THEN <<>>
        ELSE find_prev_word_start_from(e, yy - 1))

RECURSIVE find_next_word_end_from(_, _)
find_next_word_end_from(e, y) ==
    IF y >= line_count(e.buf) THEN <<>>
    ELSE Bind(word_segs(line_string(e.buf, y)), LAMBDA ws :
        IF ws # <<>> THEN <<[y |-> y, x |-> byte_to_col_in_line(e.buf, y, ws[1].end_)]>>
        ELSE find_next_word_end_from(e, y + 1))

\* the loop of MoveWordForward in apply_motion: the target (y, x)
RECURSIVE word_forward_target(_, _, _, _, _, _)
word_forward_target(e, op, n, step, y, target_c) ==
    IF step >= n THEN [y |-> y, x |-> target_c]
    ELSE Bind(next_word_start(e.buf, target_c, y), LAMBDA cur_next :
         Bind(IF cur_next = target_c
              THEN IF y + 1 >= line_count(e.buf) THEN <<>>
                   ELSE IF op # <<>>
                           /\ op[1].act \in {"OperatorDelete", "OperatorChange"}
                           /\ n - step <= 1
                   THEN <<[y |-> y + 1, x |-> 0]>>
                   ELSE find_next_word_start_from(e, y + 1)
              ELSE <<[y |-> y, x |-> cur_next]>>,
              LAMBDA next_line_word :
                  IF next_line_word # <<>>
                  THEN word_forward_target(e, op, n, step + 1,
                                           next_line_word[1].y, next_line_word[1].x)
                  ELSE [y |-> y, x |-> target_c]))

RECURSIVE word_backward_target(_, _, _, _)
word_backward_target(e, n, y, target_c) ==
    IF n = 0 THEN [y |-> y, x |-> target_c]
    ELSE Bind(prev_word_start(e.buf, target_c, y), LAMBDA cur_prev :
         Bind(IF cur_prev = target_c
              THEN find_prev_word_start_from(e, saturating_sub(y, 1))
              ELSE <<[y |-> y, x |-> cur_prev]>>,
              LAMBDA prev_line_word :
                  IF prev_line_word # <<>>
                  THEN word_backward_target(e, n - 1,
                                            prev_line_word[1].y, prev_line_word[1].x)
                  ELSE [y |-> y, x |-> target_c]))

RECURSIVE end_word_target(_, _, _, _)
end_word_target(e, n, y, target_c) ==
    IF n = 0 THEN [y |-> y, x |-> target_c]
    ELSE Bind(end_of_word(e.buf, target_c, y), LAMBDA cur_end :
         Bind(IF cur_end = target_c THEN find_next_word_end_from(e, y + 1)
              ELSE <<[y |-> y, x |-> cur_end]>>,
              LAMBDA next_line_end :
                  IF next_line_end # <<>>
                  THEN end_word_target(e, n - 1, next_line_end[1].y, next_line_end[1].x)
                  ELSE [y |-> y, x |-> target_c]))

apply_range_or_move(e, ty, tx, inclusive, op) ==
    LET eff == IF op # <<>> THEN op ELSE e.op_pending
        e1 == IF op = <<>> THEN [e EXCEPT !.op_pending = <<>>] ELSE e
    IN  IF eff # <<>>
        THEN Bind(IF eff[1].act \in {"OperatorDelete", "OperatorChange"}
                  THEN on_edit_start(e1) ELSE e1,
                  LAMBDA e2 :
             LET op_kind == eff[1].act
                 fwd == ty > e2.cy \/ (ty = e2.cy /\ tx >= e2.cx)
                 sy == IF fwd THEN e2.cy ELSE ty
                 sx == IF fwd THEN e2.cx ELSE tx
                 ey == IF fwd THEN ty ELSE e2.cy
                 ex == IF fwd THEN tx ELSE e2.cx
             IN  IF pos_gt(ey, ex, sy, sx) /\ op_kind \in OperatorActions
                 THEN Bind([e2 EXCEPT
                               !.clipboard = extract_range(e2, sy, sx, ey, ex, inclusive),
                               !.clipboard_kind = range_kind(e2, sy, sx, ey, ex)],
                           LAMBDA e3 :
                      IF op_kind = "OperatorYank" THEN e3
                      ELSE [delete_range(e3, sy, sx, ey, ex, inclusive)
                               EXCEPT !.cx = sx, !.cy = sy, !.dirty = TRUE,
                                      !.mode = IF op_kind = "OperatorChange"
                                               THEN "Insert" ELSE @])
                 ELSE e2)
        ELSE [e1 EXCEPT !.cx = tx, !.cy = ty]

\* a grouping test that takes every action for an edit (C7 tells it from the
\* source's)
is_editing_action_any(act) == TRUE

is_editing_action(act) ==
    act \in {"DeleteLine", "DeleteCharUnder", "OpenAbove", "OpenBelow"}

\* the target of a word or line motion in apply_motion and whether the
\* range up to it takes the grapheme at the target in; n is count.max(1)
motion_target(e, act, n, op) ==
    CASE act = "MoveWordForward" ->
             [t |-> word_forward_target(e, op, n, 0, e.cy, e.cx), inclusive |-> FALSE]
      [] act = "MoveWordBackward" ->
             [t |-> word_backward_target(e, n, e.cy, e.cx), inclusive |-> FALSE]
      [] act = "MoveEndWord" ->
             [t |-> end_word_target(e, n, e.cy, e.cx), inclusive |-> TRUE]
      [] act = "LineStart" -> [t |-> [y |-> e.cy, x |-> 0], inclusive |-> FALSE]
      [] act = "LineEnd" ->
             [t |-> [y |-> e.cy, x |-> line_width(e.buf, e.cy)], inclusive |-> TRUE]

\* the match arms of apply_motion for the word and line motions; n is
\* count.max(1)
motion_arm(e, act, n, op) ==
    Bind(motion_target(e, act, n, op),
         LAMBDA m : apply_range_or_move(e, m.t.y, m.t.x, m.inclusive, op))

apply_action(e, act) ==
    clamp_cursor(
        CASE act = "MoveLeft" ->
                 IF e.cx > 0 THEN [e EXCEPT !.cx = prev_col(e.buf, e.cx, e.cy)]
                 ELSE IF e.cy > 0
                 THEN [e EXCEPT !.cy = e.cy - 1, !.cx = line_width(e.buf, e.cy - 1)]
                 ELSE e
          [] act = "MoveRight" ->
                 IF e.cx < line_width(e.buf, e.cy)
                 THEN [e EXCEPT !.cx = next_col(e.buf, e.cx, e.cy)]
                 ELSE IF e.cy + 1 < line_count(e.buf)
                 THEN [e EXCEPT !.cy = e.cy + 1, !.cx = 0]
                 ELSE e
          [] act = "MoveUp" -> IF e.cy > 0 THEN [e EXCEPT !.cy = e.cy - 1] ELSE e
          [] act = "MoveDown" ->
                 IF e.cy + 1 < line_count(e.buf) THEN [e EXCEPT !.cy = e.cy + 1] ELSE e
          [] act = "LineStart" -> [e EXCEPT !.cx = 0]
          [] act = "LineEnd" -> [e EXCEPT !.cx = line_width(e.buf, e.cy)]
          [] act = "GotoTop" -> [e EXCEPT !.cy = 0, !.cx = 0]
          [] act = "GotoBottom" ->
                 [e EXCEPT !.cy = line_count(e.buf) - 1,
                           !.cx = line_width(e.buf, line_count(e.buf) - 1)]
          [] act = "EnterInsert" -> [e EXCEPT !.mode = "Insert"]
          [] act = "EnterVisual" -> toggle_visual_mode(e, "Visual")
          [] act = "EnterVisualLine" -> toggle_visual_mode(e, "VisualLine")
          [] act = "EnterVisualBlock" -> toggle_visual_mode(e, "VisualBlock")
          [] act = "Append" ->
                 [e EXCEPT !.cx = IF e.cx < line_width(e.buf, e.cy)
                                  THEN next_col(e.buf, e.cx, e.cy) ELSE @,
                           !.mode = "Insert"]
          [] act = "OpenBelow" ->
                 Bind(on_edit_start(e), LAMBDA s :
                     [s EXCEPT !.buf = buf_insert_newline(s.buf, line_width(s.buf, s.cy), s.cy),
                               !.cy = s.cy + 1, !.cx = 0, !.dirty = TRUE, !.mode = "Insert"])
          [] act = "OpenAbove" ->
                 Bind(on_edit_start(e), LAMBDA s :
                     [s EXCEPT !.buf = buf_insert_newline(s.buf, 0, s.cy),
                               !.cx = 0, !.dirty = TRUE, !.mode = "Insert"])
          [] act = "DeleteCharUnder" ->
                 Bind(on_edit_start(e), LAMBDA s :
                     [s EXCEPT !.buf = delete_at(s.buf, s.cx, s.cy), !.dirty = TRUE])
          [] act = "DeleteLine" ->
                 Bind(on_edit_start(e), LAMBDA s :
                 Bind(delete_line(s.buf, s.cy), LAMBDA rope :
                     [s EXCEPT !.clipboard = line_string(s.buf, s.cy),
                               !.clipboard_kind = "Linewise",
                               !.buf = rope,
                               !.cy = IF s.cy >= line_count(rope)
                                      THEN saturating_sub(line_count(rope), 1) ELSE s.cy,
                               !.cx = 0, !.dirty = TRUE]))
          [] act = "CommandPrompt" -> e
          [] act \in OperatorActions -> [e EXCEPT !.op_pending = <<[act |-> act, n |-> 1]>>]
          [] act = "Undo" -> undo(e)
          [] act = "Redo" -> redo(e)
          [] act \in {"MoveWordForward", "MoveWordBackward", "MoveEndWord"} ->
                 motion_arm(e, act, 1, <<>>)
          [] act = "PasteAfter" -> paste_after(e)
          [] act = "PasteBefore" -> paste_before(e))

\* for _ in 0..n { self.apply_action(act) }
RECURSIVE apply_action_times(_, _, _)
apply_action_times(e, act, n) ==
    IF n = 0 THEN e
    ELSE Bind(apply_action(e, act), LAMBDA e1 : apply_action_times(e1, act, n - 1))

\* an apply_action_count that does not close the counted group at its end
apply_action_count_keeping_group(e, act, count) ==
    LET n == Max(count, 1)
    IN  IF act = "DeleteLine" /\ n > 1 THEN delete_n_lines(e, n)
        ELSE LET e1 == IF n > 1 /\ ~e.count_group_active /\ is_editing_action(act)
                       THEN [push_snapshot(e) EXCEPT !.count_group_active = TRUE]
                       ELSE e
             IN  apply_action_times(e1, act, n)

apply_action_count(e, act, count) ==
    LET n == Max(count, 1)
    IN  IF act = "DeleteLine" /\ n > 1 THEN delete_n_lines(e, n)
        ELSE LET e1 == IF n > 1 /\ ~e.count_group_active /\ is_editing_action(act)
                       THEN [push_snapshot(e) EXCEPT !.count_group_active = TRUE]
                       ELSE e
             IN  [apply_action_times(e1, act, n) EXCEPT !.count_group_active = FALSE]

\* an apply_motion that groups a counted yank for undo as it does a counted
\* delete or change
apply_motion_grouping_yank(e, act, count, op) ==
    LET n == Max(count, 1)
        grouped_here == n > 1 /\ op # <<>> /\ ~e.count_group_active
        e1 == IF grouped_here
              THEN [push_snapshot(e) EXCEPT !.count_group_active = TRUE]
              ELSE e
    IN  Bind(IF act \in MotionActions THEN motion_arm(e1, act, n, op)
             ELSE IF op = <<>> THEN apply_action_count(e1, act, n) ELSE e1,
             LAMBDA e2 :
                 IF grouped_here THEN [e2 EXCEPT !.count_group_active = FALSE] ELSE e2)

apply_motion(e, act, count, op) ==
    LET n == Max(count, 1)
        grouped_here == /\ n > 1 /\ op # <<>>
                        /\ op[1].act \in {"OperatorDelete", "OperatorChange"}
                        /\ ~e.count_group_active
        e1 == IF grouped_here
              THEN [push_snapshot(e) EXCEPT !.count_group_active = TRUE]
              ELSE e
    IN  Bind(IF act \in MotionActions THEN motion_arm(e1, act, n, op)
             ELSE IF op = <<>> THEN apply_action_count(e1, act, n) ELSE e1,
             LAMBDA e2 :
                 IF grouped_here THEN [e2 EXCEPT !.count_group_active = FALSE] ELSE e2)

\* a goto_line that takes its argument for a row index
goto_line_by_index(e, n1) ==
    clamp_cursor([e EXCEPT !.cy = Min(n1, line_count(e.buf) - 1), !.cx = 0])

goto_line(e, n1) ==
    clamp_cursor([e EXCEPT !.cy = saturating_sub(Min(n1, line_count(e.buf)), 1), !.cx = 0])

(***************************************************************************)
(* The Normal-mode input interpreter                                       *)
(***************************************************************************)
digit_value(ch) ==
    CASE ch = "0" -> 0 [] ch = "1" -> 1 [] ch = "2" -> 2 [] ch = "3" -> 3
      [] ch = "4" -> 4 [] ch = "5" -> 5 [] ch = "6" -> 6 [] ch = "7" -> 7
      [] ch = "8" -> 8 [] ch = "9" -> 9

is_ascii_digit(ch) == ch \in {"0", "1", "2", "3", "4", "5", "6", "7", "8", "9"}

\* str::parse::<usize> of a string of digits (the counts of the model stay
\* far below usize::MAX, where parse fails)
RECURSIVE parse_usize(_)
parse_usize(s) ==
    IF s = <<>> THEN 0
    ELSE parse_usize(SubSeq(s, 1, Len(s) - 1)) * 10 + digit_value(s[Len(s)])

\* the number of ASCII digits of seq from position k on
RECURSIVE digit_run(_, _)
digit_run(seq, k) ==
    IF k <= Len(seq) /\ is_ascii_digit(seq[k]) THEN 1 + digit_run(seq, k + 1) ELSE 0

\* a count prefix of the leading digit alone
parse_count_prefix_one_digit(seq) ==
    IF seq # <<>> /\ is_ascii_digit(seq[1]) /\ seq[1] # "0"
    THEN [count |-> <<digit_value(seq[1])>>, idx |-> 1]
    ELSE [count |-> <<>>, idx |-> 0]

\* (count, idx): the leading count [1-9][0-9]* and the byte offset after it
parse_count_prefix(seq) ==
    LET idx == IF seq # <<>> /\ is_ascii_digit(seq[1]) /\ seq[1] # "0"
               THEN 1 + digit_run(seq, 2) ELSE 0
    IN  IF idx = 0 THEN [count |-> <<>>, idx |-> 0]
        ELSE [count |-> <<parse_usize(SubSeq(seq, 1, idx))>>, idx |-> idx]

\* str::is_char_boundary
is_char_boundary(s, byte) ==
    \E k \in 0..Len(s) : str_len(SubSeq(s, 1, k)) = byte

\* &s[..byte] and &s[byte..], on a character boundary
slice_to(s, byte) == SubSeq(s, 1, chars_count(s, byte))
slice_from(s, byte) == SubSeq(s, chars_count(s, byte) + 1, Len(s))

starts_with(k, prefix) ==
    Len(prefix) <= Len(k) /\ SubSeq(k, 1, Len(prefix)) = prefix

\* the action the pending operator (op_kind, effective) and the resolved act
\* combine to, in the exact-match branch
combine_operator(e, op_kind, act, effective) ==
    IF op_kind = "OperatorDelete" /\ act \in {"OperatorDelete", "DeleteLine"}
    THEN apply_action_count(e, "DeleteLine", effective)
    ELSE IF op_kind = "OperatorChange" /\ act = "OperatorChange"
    THEN LET RECURSIVE clear_lines(_, _)
             clear_lines(s, k) ==
                 IF k = 0 THEN s
                 ELSE clear_lines(
                          [s EXCEPT !.buf = clear_line(s.buf, s.cy), !.cx = 0,
                                    !.dirty = TRUE,
                                    !.cy = IF s.cy + 1 < line_count(s.buf)
                                           THEN s.cy + 1 ELSE s.cy],
                          k - 1)
             c == clear_lines(e, Max(effective, 1))
         IN  [c EXCEPT !.mode = "Insert",
                       !.cy = saturating_sub(c.cy, saturating_sub(effective, 1))]
    ELSE IF op_kind = "OperatorYank" /\ act = "OperatorYank"
    THEN LET end_ == Min(e.cy + effective, line_count(e.buf))
         IN  [e EXCEPT !.clipboard = join_lines(e.buf, e.cy, end_ - 1)]
    ELSE IF act \in MotionActions
    THEN apply_motion(e, act, effective, <<[act |-> op_kind, n |-> effective]>>)
    ELSE apply_action_count(e, act, effective)

\* the combination of the longest-prefix branch (the pending operator taken)
combine_greedy(e, op_kind, act, effective) ==
    IF act \in {"OperatorDelete", "DeleteLine"}
    THEN apply_action_count(e, "DeleteLine", effective)
    ELSE IF act \in MotionActions
    THEN apply_motion(e, act, effective, <<[act |-> op_kind, n |-> effective]>>)
    ELSE apply_action_count(e, act, effective)

\* a clearing that stops the timer and keeps the keys (C13 tells it from the
\* source's)
clear_pending_keeping_keys(e) == [e EXCEPT !.pending_started = FALSE]

\* pending.clear(); pending_started = None
clear_pending(e) == [e EXCEPT !.pending = <<>>, !.pending_started = FALSE]

\* a search that takes pending keys ending in a lone g for the whole key gg
\* (C14 tells it from the source's)
longest_prefix_taking_g(e, i) ==
    IF e.pending # <<>> /\ e.pending[Len(e.pending)] = "g"
    THEN [kind |-> "found", act |-> "GotoBottom", n |-> 1, consumed |-> i]
    ELSE [kind |-> "none", act |-> "", n |-> 0, consumed |-> 0]

\* the search of the longest prefix of pending that is [count]key with key in
\* the keymap, from i bytes down; slicing inside a character panics
RECURSIVE longest_prefix(_, _)
longest_prefix(e, i) ==
    IF i = 0 THEN [kind |-> "none", act |-> "", n |-> 0, consumed |-> 0]
    ELSE IF ~is_char_boundary(e.pending, i)
    THEN [kind |-> "panic", act |-> "", n |-> 0, consumed |-> 0]
    ELSE LET candidate == slice_to(e.pending, i)
             pc == parse_count_prefix(candidate)
             key == slice_from(candidate, pc.idx)
         IN  IF key # <<>> /\ key \in DOMAIN keymap(e)
             THEN [kind |-> "found", act |-> keymap(e)[key],
                   n |-> IF pc.count = <<>> THEN 1 ELSE pc.count[1], consumed |-> i]
             ELSE longest_prefix(e, i - 1)

\* an exact-match branch whose new pending operator forgets the typed count
\* (C12 tells it from the source's)
resolve_exact_forgetting_count(e, act, count, rest) ==
    IF act = "CommandPrompt" THEN [ed |-> clear_pending(e), ret |-> "CommandPrompt"]
    ELSE IF act = "EnterVisual"
    THEN [ed |-> clear_pending(apply_action(e, act)), ret |-> "None"]
    ELSE IF count # <<>> /\ rest \in {<<"g", "g">>, <<"G">>}
    THEN [ed |-> clear_pending(goto_line(e, count[1])), ret |-> "None"]
    ELSE IF e.op_pending # <<>>
    THEN LET op_kind == e.op_pending[1].act
             n0 == e.op_pending[1].n
             effective == IF count # <<>> THEN count[1] ELSE n0
             taken == [e EXCEPT !.op_pending = <<>>]
         IN  [ed |-> clear_pending(combine_operator(taken, op_kind, act, effective)),
              ret |-> "None"]
    ELSE IF act \in OperatorActions
    THEN [ed |-> [e EXCEPT !.op_pending =
                               <<[act |-> act, n |-> 1]>>,
                           !.pending = <<>>, !.pending_started = TRUE],
          ret |-> "None"]
    ELSE [ed |-> clear_pending(
                     apply_action_count(e, act, IF count # <<>> THEN count[1] ELSE 1)),
          ret |-> "None"]

\* the exact-match branch of process_normal_char
resolve_exact(e, act, count, rest) ==
    IF act = "CommandPrompt" THEN [ed |-> clear_pending(e), ret |-> "CommandPrompt"]
    ELSE IF act = "EnterVisual"
    THEN [ed |-> clear_pending(apply_action(e, act)), ret |-> "None"]
    ELSE IF count # <<>> /\ rest \in {<<"g", "g">>, <<"G">>}
    THEN [ed |-> clear_pending(goto_line(e, count[1])), ret |-> "None"]
    ELSE IF e.op_pending # <<>>
    THEN LET op_kind == e.op_pending[1].act
             n0 == e.op_pending[1].n
             effective == IF count # <<>> THEN count[1] ELSE n0
             taken == [e EXCEPT !.op_pending = <<>>]
         IN  [ed |-> clear_pending(combine_operator(taken, op_kind, act, effective)),
              ret |-> "None"]
    ELSE IF act \in OperatorActions
    THEN [ed |-> [e EXCEPT !.op_pending =
                               <<[act |-> act, n |-> IF count # <<>> THEN count[1] ELSE 1]>>,
                           !.pending = <<>>, !.pending_started = TRUE],
          ret |-> "None"]
    ELSE [ed |-> clear_pending(
                     apply_action_count(e, act, IF count # <<>> THEN count[1] ELSE 1)),
          ret |-> "None"]

\* the execution of the longest-prefix branch, before pending is cut
resolve_greedy(e, act, n, consumed) ==
    LET candidate == slice_to(e.pending, consumed)
        pc == parse_count_prefix(candidate)
        key2 == slice_from(candidate, pc.idx)
        taken == [e EXCEPT !.op_pending = <<>>]
    IN  IF pc.count # <<>>
        THEN IF key2 \in {<<"g", "g">>, <<"G">>} THEN goto_line(e, pc.count[1])
             ELSE IF e.op_pending # <<>> /\ e.op_pending[1].act = "OperatorDelete"
             THEN combine_greedy(taken, "OperatorDelete", act,
                                 Max(pc.count[1], e.op_pending[1].n))
             ELSE IF act = "OperatorDelete"
             THEN [taken EXCEPT !.op_pending =
                                    <<[act |-> "OperatorDelete", n |-> pc.count[1]]>>]
             ELSE apply_action_count(taken, act, n)
        ELSE IF e.op_pending # <<>>
        THEN combine_greedy(taken, e.op_pending[1].act, act, Max(n, e.op_pending[1].n))
        ELSE apply_action_count(taken, act, n)

\* one iteration of the loop of process_normal_char: the state it leaves and
\* what it returns, "continue" when the loop goes round again
resolve_iteration(e) ==
    LET pc == parse_count_prefix(e.pending)
        count == pc.count
        rest == slice_from(e.pending, pc.idx)
        wait == [ed |-> [e EXCEPT !.pending_started = TRUE], ret |-> "None"]
    IN  IF count # <<>> /\ rest = <<>> THEN wait
        ELSE IF rest # <<>> /\ rest \in DOMAIN keymap(e)
        THEN resolve_exact(e, keymap(e)[rest], count, rest)
        ELSE IF \E k \in DOMAIN keymap(e) : rest # <<>> /\ starts_with(k, rest) THEN wait
        ELSE Bind(longest_prefix(e, str_len(e.pending)), LAMBDA run :
             IF run.kind = "panic"
             THEN [ed |-> [e EXCEPT !.panicked = TRUE], ret |-> "panic"]
             ELSE IF run.kind = "found" /\ run.act = "CommandPrompt"
             THEN [ed |-> clear_pending(e), ret |-> "CommandPrompt"]
             ELSE Bind(IF run.kind = "found"
                       THEN [(IF run.act = "EnterVisual" THEN apply_action(e, run.act)
                              ELSE resolve_greedy(e, run.act, run.n, run.consumed))
                                EXCEPT !.pending = slice_from(e.pending, run.consumed)]
                       ELSE [e EXCEPT !.pending = Tail(e.pending)],
                       LAMBDA e2 :
                  IF e2.pending = <<>>
                  THEN [ed |-> [e2 EXCEPT !.pending_started = FALSE], ret |-> "None"]
                  ELSE [ed |-> e2, ret |-> "continue"]))

\* the loop of process_normal_char: the state it leaves and what it returns
RECURSIVE resolve_pending(_)
resolve_pending(e) ==
    Bind(resolve_iteration(e), LAMBDA r :
        IF r.ret = "continue" THEN resolve_pending(r.ed) ELSE r)

\* process_normal_char: the state it leaves (ed) and what it returns (ret)
process_normal_char(e, c) == resolve_pending([e EXCEPT !.pending = Append(@, c)])

\* process_pending_timeout: the state it leaves (ed) and what it returns (ret)
process_pending_timeout(e) ==
    IF e.pending = <<>> THEN [ed |-> e, ret |-> "None"]
    ELSE Bind(parse_count_prefix(e.pending), LAMBDA pc :
         IF pc.count # <<>> /\ pc.idx = str_len(e.pending)
         THEN [ed |-> clear_pending(e), ret |-> "None"]
         ELSE Bind(longest_prefix(e, str_len(e.pending)), LAMBDA run :
              IF run.kind = "panic"
              THEN [ed |-> [e EXCEPT !.panicked = TRUE], ret |-> "panic"]
              ELSE IF run.kind = "found"
              THEN IF run.act = "CommandPrompt"
                   THEN [ed |-> clear_pending(e), ret |-> "CommandPrompt"]
                   ELSE Bind([(IF run.act = "OperatorDelete"
                               THEN [e EXCEPT !.op_pending =
                                        <<[act |-> "OperatorDelete", n |-> run.n]>>]
                               ELSE [apply_action_count(e, run.act, run.n)
                                        EXCEPT !.op_pending = <<>>])
                                 EXCEPT !.pending = slice_from(e.pending, run.consumed)],
                             LAMBDA e2 :
                        [ed |-> [e2 EXCEPT !.pending_started = (e2.pending # <<>>)],
                         ret |-> "None"])
              ELSE [ed |-> clear_pending(e), ret |-> "None"]))

(***************************************************************************)
(* Visual-mode operations and ex commands                                  *)
(***************************************************************************)
\* charwise bounds that are present whenever the anchor is, also when the
\* anchor is the cursor
visual_bounds_char_or_empty(e) ==
    IF e.visual_anchor = <<>> THEN <<>>
    ELSE LET a == e.visual_anchor[1]
             fwd == e.cy > a.y \/ (e.cy = a.y /\ e.cx >= a.x)
         IN  <<[sy |-> IF fwd THEN a.y ELSE e.cy, sx |-> IF fwd THEN a.x ELSE e.cx,
                ey |-> IF fwd THEN e.cy ELSE a.y, ex |-> IF fwd THEN e.cx ELSE a.x]>>

visual_bounds_char(e) ==
    IF e.visual_anchor = <<>> THEN <<>>
    ELSE LET ax == e.visual_anchor[1].x
             ay == e.visual_anchor[1].y
             bx == e.cx
             by == e.cy
             fwd == by > ay \/ (by = ay /\ bx >= ax)
             sy == IF fwd THEN ay ELSE by
             sx == IF fwd THEN ax ELSE bx
             ey == IF fwd THEN by ELSE ay
             ex == IF fwd THEN bx ELSE ax
         IN  IF pos_gt(ey, ex, sy, sx)
             THEN <<[sy |-> sy, sx |-> sx, ey |-> ey, ex |-> ex]>>
             ELSE <<>>

visual_bounds_line(e) ==
    IF e.visual_anchor = <<>> THEN <<>>
    ELSE LET ay == e.visual_anchor[1].y
         IN  <<[sy |-> Min(ay, e.cy), ey |-> Max(ay, e.cy)]>>

visual_bounds_block(e) ==
    IF e.visual_anchor = <<>> THEN <<>>
    ELSE LET ax == e.visual_anchor[1].x
             ay == e.visual_anchor[1].y
         IN  <<[sy |-> Min(ay, e.cy), ey |-> Max(ay, e.cy),
                left |-> Min(ax, e.cx), right |-> Max(ax, e.cx)]>>

RECURSIVE extract_block(_, _, _, _, _)
extract_block(e, sy, ey, left, right) ==
    IF sy > ey THEN <<>>
    ELSE Bind(line_width(e.buf, sy), LAMBDA lw :
         Bind(extract_range(e, sy, Min(left, lw), sy, Min(right, lw), FALSE), LAMBDA part :
             IF sy = ey THEN part
             ELSE part \o <<NL>> \o extract_block(e, sy + 1, ey, left, right)))

\* the rows ey down to sy, each cut to [left, right)
RECURSIVE delete_block(_, _, _, _, _)
delete_block(e, sy, ey, left, right) ==
    IF sy > ey THEN e
    ELSE Bind(line_width(e.buf, ey), LAMBDA lw :
         Bind(delete_range(e, ey, Min(left, lw), ey, Min(right, lw), FALSE), LAMBDA cut :
             IF ey = sy THEN cut ELSE delete_block(cut, sy, ey - 1, left, right)))

\* the selection cut into the clipboard, the cursor at its start; the mode is
\* left to the caller (the shared arms of visual_delete and visual_change)
visual_cut(e) ==
    IF e.mode = "Visual" /\ visual_bounds_char(e) # <<>>
    THEN Bind(visual_bounds_char(e)[1], LAMBDA b :
         Bind(on_edit_start(e), LAMBDA s :
             [delete_range(s, b.sy, b.sx, b.ey, b.ex, FALSE)
                 EXCEPT !.clipboard = extract_range(s, b.sy, b.sx, b.ey, b.ex, FALSE),
                        !.clipboard_kind = range_kind(s, b.sy, b.sx, b.ey, b.ex),
                        !.cx = b.sx, !.cy = b.sy, !.dirty = TRUE]))
    ELSE IF e.mode = "VisualLine" /\ visual_bounds_line(e) # <<>>
    THEN Bind(visual_bounds_line(e)[1], LAMBDA b :
         Bind(on_edit_start(e), LAMBDA s :
             [s EXCEPT !.clipboard = join_lines(s.buf, b.sy, b.ey),
                       !.clipboard_kind = "Linewise",
                       !.buf = delete_lines(s.buf, b.sy, b.ey - b.sy + 1),
                       !.cy = b.sy, !.cx = 0, !.dirty = TRUE]))
    ELSE IF e.mode = "VisualBlock" /\ visual_bounds_block(e) # <<>>
    THEN Bind(visual_bounds_block(e)[1], LAMBDA b :
         Bind(on_edit_start(e), LAMBDA s :
             [delete_block(s, b.sy, b.ey, b.left, b.right)
                 EXCEPT !.clipboard = extract_block(s, b.sy, b.ey, b.left, b.right),
                        !.clipboard_kind = "Blockwise",
                        !.cy = b.sy, !.cx = b.left, !.dirty = TRUE]))
    ELSE e

visual_delete(e) == [visual_cut(e) EXCEPT !.mode = "Normal", !.visual_anchor = <<>>]

visual_change(e) == [visual_cut(e) EXCEPT !.mode = "Insert", !.visual_anchor = <<>>]

visual_yank(e) ==
    [(IF e.mode = "Visual" /\ visual_bounds_char(e) # <<>>
      THEN Bind(visual_bounds_char(e)[1], LAMBDA b :
               [e EXCEPT !.clipboard = extract_range(e, b.sy, b.sx, b.ey, b.ex, FALSE),
                         !.clipboard_kind = range_kind(e, b.sy, b.sx, b.ey, b.ex)])
      ELSE IF e.mode = "VisualLine" /\ visual_bounds_line(e) # <<>>
      THEN Bind(visual_bounds_line(e)[1], LAMBDA b :
               [e EXCEPT !.clipboard = join_lines(e.buf, b.sy, b.ey),
                         !.clipboard_kind = "Linewise"])
      ELSE IF e.mode = "VisualBlock" /\ visual_bounds_block(e) # <<>>
      THEN Bind(visual_bounds_block(e)[1], LAMBDA b :
               [e EXCEPT !.clipboard = extract_block(e, b.sy, b.ey, b.left, b.right),
                         !.clipboard_kind = "Blockwise"])
      ELSE e)
        EXCEPT !.mode = "Normal", !.visual_anchor = <<>>]

\* char::is_whitespace, for the characters of the model
is_whitespace(ch) == ch \in {" ", "\t", NL}

\* str::trim
RECURSIVE trim(_)
trim(s) ==
    IF s # <<>> /\ is_whitespace(s[1]) THEN trim(Tail(s))
    ELSE IF s # <<>> /\ is_whitespace(s[Len(s)]) THEN trim(SubSeq(s, 1, Len(s) - 1))
    ELSE s

\* usize::MAX and isize::MAX of a 64-bit target, in decimal digits
USIZE_MAX == <<"1", "8", "4", "4", "6", "7", "4", "4", "0", "7",
               "3", "7", "0", "9", "5", "5", "1", "6", "1", "5">>
ISIZE_MAX == <<"9", "2", "2", "3", "3", "7", "2", "0", "3", "6",
               "8", "5", "4", "7", "7", "5", "8", "0", "7">>

\* a string of digits without its leading zeros: the magnitude of a number
\* (the empty string is zero)
RECURSIVE strip_zeros(_)
strip_zeros(t) == IF t # <<>> /\ t[1] = "0" THEN strip_zeros(Tail(t)) ELSE t

\* a <= b for magnitudes
dec_le(a, b) ==
    \/ Len(a) < Len(b)
    \/ /\ Len(a) = Len(b)
       /\ \A i \in 1..Len(a) :
              (\A j \in 1..(i - 1) : a[j] = b[j]) => digit_value(a[i]) <= digit_value(b[i])

\* the magnitude a plus the small number k
RECURSIVE dec_add(_, _)
dec_add(a, k) ==
    IF a = <<>> /\ k = 0 THEN <<>>
    ELSE LET d == (IF a = <<>> THEN 0 ELSE digit_value(a[Len(a)])) + k
             rest == IF a = <<>> THEN <<>> ELSE SubSeq(a, 1, Len(a) - 1)
         IN  IF rest = <<>> /\ d = 0 THEN <<>>
             ELSE dec_add(rest, d \div 10)
                  \o <<CHOOSE ch \in {"0", "1", "2", "3", "4", "5", "6", "7", "8", "9"} :
                           digit_value(ch) = d % 10>>

\* the value of a magnitude, capped at max (max is far below 10^9)
min_with(a, max) == IF Len(a) <= 9 THEN Min(parse_usize(a), max) ELSE max

\* str::parse::<isize> (signed) and str::parse::<usize>: an optional sign
\* ('+', and '-' when signed), then digits; None when a digit is missing or
\* wrong or the value is out of range (max is the type's MAX; its MIN has
\* the magnitude of MAX plus one)
from_str(s, signed, max) ==
    LET neg == signed /\ s # <<>> /\ s[1] = "-"
        body == IF s # <<>> /\ (s[1] = "+" \/ neg) THEN Tail(s) ELSE s
        mag == strip_zeros(body)
    IN  IF body = <<>> \/ \E i \in 1..Len(body) : ~is_ascii_digit(body[i]) THEN <<>>
        ELSE IF dec_le(mag, max) \/ (neg /\ mag = dec_add(max, 1))
        THEN <<[neg |-> neg /\ mag # <<>>, mag |-> mag]>>
        ELSE <<>>

\* the "+N" and "-N" arm of execute_ex_command: the target is
\* (cy + sign * n).clamp(0, line_count - 1); sign * n and the sum overflow
\* isize for n at the ends of its range, which panics with overflow checks
\* and wraps without them
ex_relative(e, minus, n, overflow_checks) ==
    LET last_row == saturating_sub(line_count(e.buf), 1)
        product_overflows == minus /\ n.neg /\ n.mag = dec_add(ISIZE_MAX, 1)
        negative == (minus /\ ~n.neg /\ n.mag # <<>>) \/ (~minus /\ n.neg)
        sum_overflows == ~negative /\ ~dec_le(dec_add(n.mag, e.cy), ISIZE_MAX)
        target == IF product_overflows \/ sum_overflows THEN 0
                  ELSE IF negative THEN saturating_sub(e.cy, min_with(n.mag, e.cy))
                  ELSE Min(e.cy + min_with(n.mag, last_row), last_row)
    IN  IF (product_overflows \/ sum_overflows) /\ overflow_checks
        THEN [ed |-> [e EXCEPT !.panicked = TRUE], ret |-> FALSE]
        ELSE [ed |-> clamp_cursor([e EXCEPT !.cy = target, !.cx = 0]), ret |-> TRUE]

\* execute_ex_command: "$", then a sign followed by what parses as an isize,
\* then a string of digits (handled even when it does not parse as a usize),
\* and false for the rest; overflow_checks is the build's setting
execute_ex_command(e, cmd, overflow_checks) ==
    Bind(trim(cmd), LAMBDA s :
        IF s = <<"$">>
        THEN [ed |-> IF line_count(e.buf) > 0
                     THEN [e EXCEPT !.cy = line_count(e.buf) - 1, !.cx = 0] ELSE e,
              ret |-> TRUE]
        ELSE Bind(IF s # <<>> /\ s[1] \in {"+", "-"} /\ str_len(s) > 1
                  THEN from_str(slice_from(s, 1), TRUE, ISIZE_MAX) ELSE <<>>,
                  LAMBDA n :
             IF n # <<>>
             THEN ex_relative(e, s[1] = "-", n[1], overflow_checks)
             ELSE IF s # <<>> /\ \A i \in 1..Len(s) : is_ascii_digit(s[i])
             THEN Bind(from_str(s, FALSE, USIZE_MAX), LAMBDA m :
                      [ed |-> IF m = <<>> \/ line_count(e.buf) = 0 THEN e
                              ELSE clamp_cursor(
                                       [e EXCEPT !.cy = saturating_sub(
                                                     min_with(IF m[1].mag = <<>> THEN <<"1">>
                                                              ELSE m[1].mag,
                                                              line_count(e.buf)), 1),
                                                 !.cx = 0]),
                       ret |-> TRUE])
             ELSE [ed |-> e, ret |-> FALSE]))

(***************************************************************************)
(* The editor driven by its input loop                                     *)
(***************************************************************************)
\* the longest run of input events explored
MaxSteps == 4

\* the most digits a typed count has
MaxDigits == 1

\* the documents the editor opens
Docs == { <<"a", NL, "\t">>, <<"a", "b", " ", "a">> }

\* the characters typed in Normal and the visual modes
NormalKeys ==
    {"h", "j", "k", "l", "0", "$", "w", "b", "e", "g", "G", "i", "a", "o", "O",
     "x", "d", "c", "y", "p", "P", "u", "v", "V", ":", "2"}

MotionKeys == {"h", "j", "k", "l", "0", "$", "w", "b", "e", "g", "G"}

\* the keys a visual mode hands to process_normal_char; d, c and y go to
\* visual_delete, visual_change and visual_yank
VisualKeys == MotionKeys \cup {"v", "V", "2"}

\* the characters typed in Insert mode
InsertChars == {"a"}

\* the actions of the arrow, Home and End keys
ArrowActions == {"MoveUp", "MoveDown", "MoveLeft", "MoveRight", "LineStart", "LineEnd"}

\* the ex commands entered at the prompt
ExCommands ==
    { <<"$">>, <<"+", "1">>, <<"-", "1">>, <<"0">>, <<"2">>, <<"w">> }

\* the form of an ex command of ExCommands
ex_class(cmd) ==
    CASE cmd[1] = "$" -> "last"
      [] cmd[1] = "+" -> "plus"
      [] cmd[1] = "-" -> "minus"
      [] is_ascii_digit(cmd[1]) -> "line"
      [] OTHER -> "other"

key_class(k) ==
    IF k \in MotionKeys THEN "motion"
    ELSE IF k \in {"x", "o", "O", "p", "P"} THEN "edit"
    ELSE IF k \in {"d", "c", "y"} THEN "operator"
    ELSE IF is_ascii_digit(k) THEN "count"
    ELSE IF k \in {"i", "a", "v", "V"} THEN "mode"
    ELSE IF k = "u" THEN "undo"
    ELSE "prompt"

\* a count above one is pending (typed, or held by the pending operator)
counted(e) ==
    \/ LET pc == parse_count_prefix(e.pending) IN pc.count # <<>> /\ pc.count[1] > 1
    \/ e.op_pending # <<>> /\ e.op_pending[1].n > 1

VARIABLES
    ed,     \* the Editor
    last,   \* the last input event: what it was, what it returned, and the
            \* count, operator, mode and stack heights it found; and the
            \* text the file holds since the last open() or save()
    steps   \* the number of input events so far

vars == <<ed, last, steps>>

event(op, cls, ret) ==
    [op |-> op, cls |-> cls, ret |-> ret, counted |-> counted(ed),
     operator |-> (ed.op_pending # <<>>), mode |-> ed.mode,
     undo_len |-> Len(ed.undo_stack), redo_len |-> Len(ed.redo_stack),
     saved |-> last.saved]

Init ==
    /\ \E text \in Docs, start_in_insert \in BOOLEAN : ed = new_editor(text, start_in_insert)
    /\ last = [op |-> "new", cls |-> "", ret |-> "", counted |-> FALSE,
               operator |-> FALSE, mode |-> ed.mode, undo_len |-> 0, redo_len |-> 0,
               saved |-> to_string(ed.buf)]
    /\ steps = 0

Ready == steps < MaxSteps /\ ~ed.panicked

\* a character key in Normal or a visual mode
FeedKey ==
    /\ Ready
    /\ ed.mode # "Insert"
    /\ \E k \in NormalKeys :
          /\ ed.mode \in VisualModes => k \in VisualKeys
          /\ is_ascii_digit(k) => digit_run(ed.pending, 1) < MaxDigits
          /\ \E r \in {process_normal_char(ed, k)} :
                /\ ed' = r.ed
                /\ last' = event("FeedKey", key_class(k), r.ret)
    /\ steps' = steps + 1

\* the pending-sequence timeout elapses
Timeout ==
    /\ Ready
    /\ ed.mode # "Insert"
    /\ ed.pending_started
    /\ \E r \in {process_pending_timeout(ed)} :
          /\ ed' = r.ed
          /\ last' = event("Timeout", "", r.ret)
    /\ steps' = steps + 1

\* the command typed at the prompt that ":" opened
ExCommand ==
    /\ Ready
    /\ last.op = "FeedKey" /\ last.ret = "CommandPrompt"
    /\ \E cmd \in ExCommands, overflow_checks \in BOOLEAN :
          \E r \in {execute_ex_command(ed, cmd, overflow_checks)} :
              /\ ed' = r.ed
              /\ last' = event("ExCommand", ex_class(cmd), IF r.ret THEN "true" ELSE "false")
    /\ steps' = steps + 1

\* an arrow, Home or End key in Normal or Insert mode
ArrowKey ==
    /\ Ready
    /\ ed.mode \in {"Normal", "Insert"}
    /\ \E act \in ArrowActions : ed' = apply_action(ed, act)
    /\ last' = event("ArrowKey", "motion", "")
    /\ steps' = steps + 1

InsertChar ==
    /\ Ready
    /\ ed.mode = "Insert"
    /\ \E ch \in InsertChars : ed' = insert_char(ed, ch)
    /\ last' = event("InsertChar", "edit", "")
    /\ steps' = steps + 1

InsertNewline ==
    /\ Ready
    /\ ed.mode = "Insert"
    /\ ed' = insert_newline(ed)
    /\ last' = event("InsertNewline", "edit", "")
    /\ steps' = steps + 1

\* Backspace or Delete in Insert mode
DeleteChar ==
    /\ Ready
    /\ ed.mode = "Insert"
    /\ ed' = delete_char(ed)
    /\ last' = event("DeleteChar", "edit", "")
    /\ steps' = steps + 1

\* Esc in Insert mode
Escape ==
    /\ Ready
    /\ ed.mode = "Insert"
    /\ ed' = [ed EXCEPT !.mode = "Normal"]
    /\ last' = event("Escape", "mode", "")
    /\ steps' = steps + 1

\* the chord that breaks the undo group in Insert mode
EndUndoGroup ==
    /\ Ready
    /\ ed.mode = "Insert"
    /\ ed' = end_undo_group(ed)
    /\ last' = event("EndUndoGroup", "", "")
    /\ steps' = steps + 1

\* a call of Editor::undo; cls is the mode of the snapshot it pops
Undo ==
    /\ Ready
    /\ ed' = undo(ed)
    /\ last' = event("Undo",
                     IF undo_ret(ed) THEN ed.undo_stack[Len(ed.undo_stack)].mode ELSE "",
                     IF undo_ret(ed) THEN "true" ELSE "false")
    /\ steps' = steps + 1

\* a call of Editor::redo; cls is the mode of the snapshot it pops
Redo ==
    /\ Ready
    /\ ed' = redo(ed)
    /\ last' = event("Redo",
                     IF redo_ret(ed) THEN ed.redo_stack[Len(ed.redo_stack)].mode ELSE "",
                     IF redo_ret(ed) THEN "true" ELSE "false")
    /\ steps' = steps + 1

VisualDelete ==
    /\ Ready
    /\ ed.mode \in VisualModes
    /\ ed' = visual_delete(ed)
    /\ last' = event("VisualDelete", "edit", "")
    /\ steps' = steps + 1

VisualChange ==
    /\ Ready
    /\ ed.mode \in VisualModes
    /\ ed' = visual_change(ed)
    /\ last' = event("VisualChange", "edit", "")
    /\ steps' = steps + 1

VisualYank ==
    /\ Ready
    /\ ed.mode \in VisualModes
    /\ ed' = visual_yank(ed)
    /\ last' = event("VisualYank", "", "")
    /\ steps' = steps + 1

\* a call of Editor::save with the file name open() has set: the write
\* succeeds (ok) or fails, and then save returns the error at once
Save ==
    /\ Ready
    /\ \E ok \in BOOLEAN :
          /\ ed' = save(ed, ok)
          /\ last' = [event("Save", "", IF ok THEN "Ok" ELSE "Err")
                         EXCEPT !.saved = IF ok THEN to_string(ed.buf) ELSE @]
    /\ steps' = steps + 1

Next ==
    \/ FeedKey \/ Timeout \/ ExCommand \/ ArrowKey
    \/ InsertChar \/ InsertNewline \/ DeleteChar \/ Escape \/ EndUndoGroup
    \/ Undo \/ Redo
    \/ VisualDelete \/ VisualChange \/ VisualYank

Spec == Init /\ [][Next]_vars

\* the editor with its file saved now and then
SaveNext == Next \/ Save

SaveSpec == Init /\ [][SaveNext]_vars

(***************************************************************************)
(* Properties                                                              *)
(***************************************************************************)
InsertEdits == {"InsertChar", "InsertNewline", "DeleteChar"}

undo_len == Len(ed.undo_stack)

\* C1: after any sequence of editor operations the cursor is on a row of the
\* document and at a column no greater than the width of that row.
C1_CursorInBounds ==
    ed.cy < line_count(ed.buf) /\ ed.cx <= line_width(ed.buf, ed.cy)

\* an uncounted Normal-mode command, or a visual delete or change, that
\* changed the text
DiscreteEdit ==
    /\ ed'.buf # ed.buf
    /\ \/ /\ last'.op = "FeedKey" /\ last'.mode = "Normal" /\ ~last'.counted
          /\ last'.cls \in {"edit", "operator", "motion"}
       \/ last'.op \in {"VisualDelete", "VisualChange"}

\* C2: a single discrete Normal-mode edit (x, dd, o, O, p, P, cc, d or c with
\* a motion, a visual delete or change) followed by undo() makes undo() return
\* true and restores the text and the cursor the edit found.
C2_EditThenUndoRestores ==
    [][DiscreteEdit =>
          /\ undo_ret(ed')
          /\ undo(ed').buf = ed.buf
          /\ undo(ed').cx = ed.cx /\ undo(ed').cy = ed.cy]_vars

\* C3: whenever undo() returns true, a redo() right after it returns true and
\* restores the text and the cursor from just before the undo.
C3_UndoThenRedoRestores ==
    undo_ret(ed) =>
        LET u == undo(ed)
        IN  /\ redo_ret(u)
            /\ redo(u).buf = ed.buf
            /\ redo(u).cx = ed.cx /\ redo(u).cy = ed.cy

\* the event before this one entered Insert mode, or the editor started in it
EnteredInsert == ed.mode = "Insert" /\ (last.mode # "Insert" \/ last.op = "new")

\* C4: in Insert mode a run of insert_char, insert_newline and delete_char
\* pushes exactly one snapshot: its first edit (after entering Insert, or
\* after end_undo_group or an undo or redo that restored a snapshot) pushes
\* one, and an edit that follows an edit of the run pushes none.
RunBroken ==
    \/ last.op = "EndUndoGroup"
    \/ last.op \in {"Undo", "Redo"} /\ last.ret = "true"

C4_InsertRunsPushOnce ==
    [][last'.op \in InsertEdits =>
          /\ last.op \in InsertEdits => Len(ed'.undo_stack) = undo_len
          /\ (EnteredInsert \/ RunBroken) => Len(ed'.undo_stack) = undo_len + 1]_vars

\* C5: the first edit after each entry into Insert mode pushes a snapshot, so
\* typing, Esc, i or a, typing again gives two undo steps.
C5_FirstEditAfterEntryPushes ==
    [][(last'.op \in InsertEdits /\ EnteredInsert)
          => Len(ed'.undo_stack) = undo_len + 1]_vars

\* a counted (n > 1) Normal-mode x, dd, o, O, p, P or d/c with a motion that
\* changed the text (cc, the operator key after a pending change, is not one)
CountedEdit ==
    /\ ed'.buf # ed.buf
    /\ last'.op = "FeedKey" /\ last'.mode = "Normal" /\ last'.counted
    /\ last'.cls \in {"edit", "operator", "motion"}
    /\ ~(last'.cls = "operator" /\ ed.op_pending # <<>>
            /\ ed.op_pending[1].act = "OperatorChange")

\* C6: every counted mutating Normal-mode command grows the undo stack by
\* exactly one snapshot.
C6_CountedEditPushesOnce ==
    [][CountedEdit => Len(ed'.undo_stack) = undo_len + 1]_vars

\* C7: a motion key (h j k l 0 $ w b e gg G), with or without a count and with
\* no operator pending, leaves the undo stack, the redo stack and the text
\* unchanged.
C7_MotionsKeepHistory ==
    [][(last'.op = "FeedKey" /\ last'.cls = "motion" /\ ~last'.operator)
          => /\ ed'.undo_stack = ed.undo_stack
             /\ ed'.redo_stack = ed.redo_stack
             /\ ed'.buf = ed.buf]_vars

\* a counted motion with no operator pending has moved the cursor off the
\* first row of an edited document
C7_Witness ==
    /\ last.op = "FeedKey" /\ last.cls = "motion" /\ last.counted /\ ~last.operator
    /\ ed.pending = <<>> /\ ed.cy > 0
    /\ last.undo_len > 0 /\ Len(ed.undo_stack) = last.undo_len

\* C8: every push of a new edit snapshot empties the redo stack; redo() then
\* returns false and changes nothing.
C8_PushClearsRedo ==
    [][(last'.op # "Redo" /\ Len(ed'.undo_stack) > undo_len)
          => /\ ed'.redo_stack = <<>>
             /\ ~redo_ret(ed')
             /\ redo(ed') = ed']_vars

\* an edit has pushed a snapshot while the redo stack held one
C8_Witness ==
    /\ last.op \notin {"Undo", "Redo"}
    /\ last.redo_len > 0
    /\ Len(ed.undo_stack) > last.undo_len
    /\ ed.redo_stack = <<>>

\* C9: undo() on an empty undo stack and redo() on an empty redo stack return
\* false and leave the document, the cursor, the mode, the clipboard and both
\* stacks as they were.
C9_EmptyStackNoOp ==
    [][/\ (last'.op = "Undo" /\ ed.undo_stack = <<>>)
            => (last'.ret = "false" /\ ed' = ed)
       /\ (last'.op = "Redo" /\ ed.redo_stack = <<>>)
            => (last'.ret = "false" /\ ed' = ed)]_vars

\* undo() has been called on an empty undo stack while the redo stack held a
\* snapshot
C9_Witness ==
    /\ last.op = "Undo" /\ last.ret = "false"
    /\ ed.undo_stack = <<>> /\ ed.redo_stack # <<>>

\* C10: undo() and redo() never change the mode, even when the snapshot they
\* restore was taken in another mode.
C10_UndoRedoKeepMode ==
    [][last'.op \in {"Undo", "Redo"} => ed'.mode = ed.mode]_vars

\* undo() has restored a snapshot taken in a mode other than the current one
C10_Witness ==
    /\ last.op = "Undo" /\ last.ret = "true"
    /\ last.cls # ed.mode

\* a fed key or a timeout has ended a resolution attempt: the pending keys
\* are gone, and the key was not an operator key
ResolutionEnded ==
    /\ last'.op \in {"FeedKey", "Timeout"}
    /\ last'.op = "Timeout" => ed.pending # <<>>
    /\ ed'.pending = <<>>
    /\ last'.cls # "operator"

\* C11: after every resolution attempt that a fed key or a timeout ends (an
\* action executed, a counted gg/G jump, a visual-mode toggle, a
\* command-prompt signal, the pending keys dropped) no operator is pending,
\* unless the attempt resolved an operator key.
C11_OperatorClearedAfterAttempt ==
    [][ResolutionEnded => ed'.op_pending = <<>>]_vars

\* the pending keys are empty or only a count
CountOnly(seq) == parse_count_prefix(seq).idx = Len(seq)

\* the action the default keymap binds an operator key to
OperatorOf(k) ==
    CASE k = "d" -> "OperatorDelete" [] k = "c" -> "OperatorChange" [] k = "y" -> "OperatorYank"

\* C12: with no operator pending, an operator key d, c or y, alone or after a
\* count n, executes nothing: the operator becomes pending with n (or 1), the
\* pending keys are emptied, and the text, cursor, mode, clipboard and both
\* stacks stay as they were.
C12_OperatorKeyOnlyPends ==
    \A k \in {"d", "c", "y"} :
        (ed.mode = "Normal" /\ ed.op_pending = <<>> /\ CountOnly(ed.pending))
        => \E r \in {process_normal_char(ed, k)} :
              /\ r.ret = "None"
              /\ r.ed.op_pending =
                     <<[act |-> OperatorOf(k),
                        n |-> IF ed.pending = <<>> THEN 1 ELSE parse_usize(ed.pending)]>>
              /\ r.ed.pending = <<>>
              /\ r.ed.buf = ed.buf /\ r.ed.cx = ed.cx /\ r.ed.cy = ed.cy
              /\ r.ed.mode = ed.mode
              /\ r.ed.clipboard = ed.clipboard /\ r.ed.clipboard_kind = ed.clipboard_kind
              /\ r.ed.undo_stack = ed.undo_stack /\ r.ed.redo_stack = ed.redo_stack

\* an operator key fed after the count 2, with no operator pending before, on
\* a document with history
C12_Witness ==
    /\ last.op = "FeedKey" /\ last.cls = "operator" /\ last.counted /\ ~last.operator
    /\ last.mode = "Normal"
    /\ ed.op_pending # <<>> /\ ed.op_pending[1].n = 2
    /\ ed.undo_stack # <<>>

\* seq is a count [1-9][0-9]*
IsCount(seq) ==
    /\ seq # <<>> /\ seq[1] # "0"
    /\ \A i \in 1..Len(seq) : is_ascii_digit(seq[i])

\* seq is a strict prefix of a key of the keymap and not a key itself
StrictKeyPrefix(seq) ==
    /\ seq # <<>> /\ seq \notin DOMAIN default_keymap
    /\ \E k \in DOMAIN default_keymap : Len(k) > Len(seq) /\ SubSeq(k, 1, Len(seq)) = seq

\* C13: with the default keymap, whenever process_normal_char or
\* process_pending_timeout has returned, pending keys that are left are only
\* a count, or an optional count followed by a strict prefix of a keymap key
\* that is not a key itself.
C13_PendingIsCountOrPrefix ==
    (~ed.panicked /\ ed.pending # <<>>)
    => \/ IsCount(ed.pending)
       \/ \E i \in 0..(Len(ed.pending) - 1) :
             /\ i > 0 => IsCount(SubSeq(ed.pending, 1, i))
             /\ StrictKeyPrefix(SubSeq(ed.pending, i + 1, Len(ed.pending)))

\* a key has left a count followed by the prefix g pending
C13_Witness ==
    /\ last.op = "FeedKey" /\ last.ret = "None"
    /\ Len(ed.pending) = 2 /\ ed.pending[1] = "2" /\ ed.pending[2] = "g"

\* C14: in every state reached by feeding keys with the default keymap,
\* process_pending_timeout executes no action: it empties the pending keys (a
\* count alone and an incomplete key prefix are both discarded) and leaves
\* the text, cursor, mode, clipboard and both stacks as they were.
C14_TimeoutOnlyDiscards ==
    ~ed.panicked
    => \E r \in {process_pending_timeout(ed)} :
          /\ r.ret = "None"
          /\ r.ed.pending = <<>>
          /\ r.ed.buf = ed.buf /\ r.ed.cx = ed.cx /\ r.ed.cy = ed.cy
          /\ r.ed.mode = ed.mode
          /\ r.ed.clipboard = ed.clipboard /\ r.ed.clipboard_kind = ed.clipboard_kind
          /\ r.ed.undo_stack = ed.undo_stack /\ r.ed.redo_stack = ed.redo_stack

\* the timeout has elapsed on a pending count, with no operator pending, on
\* an edited document
C14_Witness ==
    /\ last.op = "Timeout" /\ last.ret = "None"
    /\ last.counted /\ ~last.operator
    /\ ed.pending = <<>> /\ ed.undo_stack # <<>>

(***************************************************************************)
(* One call of process_normal_char, an iteration of its loop at a time     *)
(***************************************************************************)
\* the longest pending sequence a call finds
MaxPending == 2

\* the characters of a pending sequence and the characters fed: a count
\* digit, bound keys, a prefix of a bound key, a character bound to nothing
\* and a character of several bytes
PendingChars == {"2", "g", "d", "x", "v", "z", WIDE}

\* the pending sequences a call finds (pending is a public field)
PendingSeqs == UNION {[1..n -> PendingChars] : n \in 0..MaxPending}

\* an editor in Normal mode, with either keymap, a pending sequence and
\* possibly a pending operator
LoopInit ==
    /\ \E text \in Docs, km \in {"default", "user"}, p \in PendingSeqs,
          op \in {<<>>, <<[act |-> "OperatorDelete", n |-> 1]>>} :
          ed = [new_editor(text, FALSE) EXCEPT !.keymap = km, !.pending = p,
                                               !.op_pending = op,
                                               !.pending_started = (p # <<>> \/ op # <<>>)]
    /\ last = [op |-> "idle", ret |-> ""]
    /\ steps = 0

\* process_normal_char is called: the character is appended to pending
LoopFeed ==
    /\ last.op = "idle"
    /\ \E c \in PendingChars : ed' = [ed EXCEPT !.pending = Append(@, c)]
    /\ last' = [op |-> "loop", ret |-> ""]
    /\ steps' = steps

\* one iteration of the loop: it returns, panics or goes round again
LoopIterate ==
    /\ last.op = "loop"
    /\ \E r \in {resolve_iteration(ed)} :
          /\ ed' = r.ed
          /\ last' = [op |-> CASE r.ret = "continue" -> "loop"
                               [] r.ret = "panic" -> "panicked"
                               [] OTHER -> "returned",
                      ret |-> r.ret]
    /\ steps' = steps + 1

LoopNext == LoopFeed \/ LoopIterate

LoopSpec == LoopInit /\ [][LoopNext]_vars

\* an iteration returns or strictly shortens the pending sequence, and a
\* return leaves the pending sequence empty or the editor waiting on it
IterationEnds ==
    last.op = "loop"
    => /\ last'.op \in {"loop", "returned"}
       /\ last'.op = "loop" => str_len(ed'.pending) < str_len(ed.pending)
       /\ last'.op = "returned"
            => \/ ed'.pending = <<>>
               \/ ed'.pending = ed.pending /\ ed'.pending_started

\* C15: every call of process_normal_char terminates, for any prior pending
\* sequence, keymap and fed character: each iteration of its loop returns or
\* strictly shortens the pending sequence, and the call ends with an action
\* resolved, the editor waiting on a count or key prefix, or pending empty.
C15_LoopTerminates == [][IterationEnds]_vars

\* C16: feeding any character to process_normal_char, one bound to nothing
\* and one of several bytes included, never panics.
C16_NeverPanics == ~ed.panicked

\* the rows of a document, in order
Lines(rope) == [i \in 1..line_count(rope) |-> line_string(rope, i - 1)]

\* rows joined by newline
RECURSIVE JoinNL(_)
JoinNL(rows) ==
    IF rows = <<>> THEN <<>>
    ELSE IF Len(rows) = 1 THEN rows[1]
    ELSE rows[1] \o <<NL>> \o JoinNL(Tail(rows))

\* the rows left when the k rows from row r on are removed: one empty row
\* when none is left
RowsWithout(rows, r, k) ==
    IF k = Len(rows) THEN << <<>> >>
    ELSE SubSeq(rows, 1, r) \o SubSeq(rows, r + k + 1, Len(rows))

\* the editor is in Normal mode with nothing pending but, possibly, a count
AwaitingCommand(e) ==
    /\ ~e.panicked
    /\ e.mode = "Normal"
    /\ e.op_pending = <<>>
    /\ CountOnly(e.pending)

\* what [n]dd is to do to the editor e, given the editor d it leaves
DdOutcome(e, d) ==
    LET n == IF e.pending = <<>> THEN 1 ELSE parse_usize(e.pending)
        rows == Lines(e.buf)
        k == Min(n, Len(rows) - e.cy)
        left == RowsWithout(rows, e.cy, k)
    IN  /\ Lines(d.buf) = left
        /\ d.clipboard = JoinNL(SubSeq(rows, e.cy + 1, e.cy + k))
        /\ d.clipboard_kind = "Linewise"
        /\ d.cx = 0
        /\ d.cy = Min(e.cy, Len(left) - 1)

\* C17: [n]dd on row r of an L-line document removes exactly the
\* k = min(n, L - r) lines r .. r+k-1: the other lines stay in order (one
\* empty line when k = L), the clipboard holds the removed lines joined by
\* newline with kind Linewise, and the cursor is at column 0 of row
\* min(r, new line_count - 1).
C17_DdRemovesLines ==
    AwaitingCommand(ed)
    => \E r1 \in {process_normal_char(ed, "d")} :
       \E r2 \in {process_normal_char(r1.ed, "d")} :
           r2.ret = "None" /\ DdOutcome(ed, r2.ed)

\* the action a motion key resolves to
MotionOf(k) ==
    CASE k = "w" -> "MoveWordForward"
      [] k = "b" -> "MoveWordBackward"
      [] k = "e" -> "MoveEndWord"
      [] k = "0" -> "LineStart"
      [] k = "$" -> "LineEnd"

\* position p comes before position q in document order
Before(p, q) == p.y < q.y \/ (p.y = q.y /\ p.x < q.x)

\* what the operator op_kind with a motion to the target m.t is to do to the
\* editor e, given the editor d it leaves
SweepOutcome(e, op_kind, m, d) ==
    LET c == [y |-> e.cy, x |-> e.cx]
        start == IF Before(m.t, c) THEN m.t ELSE c
        end_ == IF Before(m.t, c) THEN c ELSE m.t
        from == char_index_at_col(e.buf, start.y, start.x)
        upto == char_index_at_col(e.buf, end_.y, end_.x)
                + (IF m.inclusive /\ end_.x < line_width(e.buf, end_.y) THEN 1 ELSE 0)
        linewise == /\ start.y < end_.y
                    /\ start.x = 0
                    /\ end_.x >= line_width(e.buf, end_.y)
    IN  /\ d.clipboard = SubSeq(e.buf, from + 1, upto)
        /\ d.buf = SubSeq(e.buf, 1, from) \o SubSeq(e.buf, upto + 1, Len(e.buf))
        /\ d.cy = start.y
        /\ d.cx = start.x
        /\ d.clipboard_kind = (IF linewise THEN "Linewise" ELSE "Charwise")
        /\ d.mode = (IF op_kind = "OperatorChange" THEN "Insert" ELSE "Normal")

\* C18: a delete or change operator with a motion (w, b, e, 0, $) whose
\* target differs from the cursor removes exactly the text from the start
\* of the sweep up to its end (one grapheme more for e and $) into the
\* clipboard, leaves the other text, puts the cursor at the start, sets the
\* clipboard kind Linewise iff the sweep spans more than one row, starts at
\* column 0 and ends at or past the width of the last row, and enters
\* Insert for change while delete stays in Normal.
C18_OperatorMotionSweep ==
    AwaitingCommand(ed)
    => \A k \in {"d", "c"}, mk \in {"w", "b", "e", "0", "$"} :
       \E r1 \in {process_normal_char(ed, k)} :
       \E m \in {motion_target(r1.ed, MotionOf(mk), r1.ed.op_pending[1].n, r1.ed.op_pending)} :
       \E r2 \in {process_normal_char(r1.ed, mk)} :
           (m.t # [y |-> ed.cy, x |-> ed.cx])
           => r2.ret = "None" /\ SweepOutcome(ed, OperatorOf(k), m, r2.ed)

C18_Witness ==
    /\ last.op = "FeedKey" /\ last.cls = "motion" /\ last.operator
    /\ Len(ed.undo_stack) > last.undo_len
    /\ ed.mode = "Normal"
    /\ ed.clipboard_kind = "Linewise"
    /\ \E i \in 1..Len(ed.clipboard) : ed.clipboard[i] = NL

\* the editor has nothing pending but, possibly, a count, in Normal mode or
\* a visual mode
AwaitingMotion(e) ==
    /\ ~e.panicked
    /\ e.mode # "Insert"
    /\ e.op_pending = <<>>
    /\ CountOnly(e.pending)

\* the row [n]gg and [n]G go to, and the rows gg and G go to without a count
GotoRow(e, top) ==
    IF e.pending # <<>> THEN Min(parse_usize(e.pending), line_count(e.buf)) - 1
    ELSE IF top THEN 0
    ELSE line_count(e.buf) - 1

\* C19: with a count n both [n]gg and [n]G move the cursor to row
\* min(n, line_count()) - 1 instead of repeating the motion; without a count
\* gg moves to row 0 and G to row line_count() - 1.
C19_CountedGotoLine ==
    AwaitingMotion(ed)
    => /\ \E r1 \in {process_normal_char(ed, "g")} :
          \E r2 \in {process_normal_char(r1.ed, "g")} :
              /\ r1.ret = "None" /\ r1.ed.cy = ed.cy /\ r1.ed.buf = ed.buf
              /\ r2.ret = "None" /\ r2.ed.cy = GotoRow(ed, TRUE)
              /\ r2.ed.buf = ed.buf /\ r2.ed.pending = <<>>
       /\ \E r \in {process_normal_char(ed, "G")} :
              /\ r.ret = "None" /\ r.ed.cy = GotoRow(ed, FALSE)
              /\ r.ed.buf = ed.buf /\ r.ed.pending = <<>>

C19_Witness ==
    /\ last.op = "FeedKey" /\ last.cls = "motion" /\ last.counted
    /\ ~last.operator /\ last.mode = "Normal"
    /\ ed.pending = <<>>
    /\ ed.buf = <<NL, "a", NL, "\t">>
    /\ ed.cy = 1 /\ ed.cx = 0

\* the editor has nothing pending at all, in Normal mode or a visual mode
Idle(e) ==
    /\ ~e.panicked
    /\ e.mode # "Insert"
    /\ e.op_pending = <<>>
    /\ e.pending = <<>>

\* C20: a count prefix never starts with 0: a '0' fed when the pending
\* sequence is empty resolves at once to the line-start command (cursor
\* column 0, pending empty), while a '0' fed after a count digit is
\* accumulated into the count and executes nothing, so that "10j" moves the
\* cursor down min(10, rows below) lines.
C20_ZeroAfterDigitsCounts ==
    Idle(ed)
    => /\ \E r \in {process_normal_char(ed, "0")} :
              /\ r.ret = "None" /\ r.ed.pending = <<>>
              /\ r.ed.cx = 0 /\ r.ed.cy = ed.cy /\ r.ed.buf = ed.buf
       /\ \A d \in {"1", "2"} :
          \E r1 \in {process_normal_char(ed, d)} :
          \E r2 \in {process_normal_char(r1.ed, "0")} :
          \E r3 \in {process_normal_char(r2.ed, "j")} :
              /\ r2.ret = "None"
              /\ r2.ed = [ed EXCEPT !.pending = <<d, "0">>, !.pending_started = TRUE]
              /\ r3.ret = "None" /\ r3.ed.pending = <<>> /\ r3.ed.buf = ed.buf
              /\ r3.ed.cy = ed.cy + Min(10 * digit_value(d),
                                        line_count(ed.buf) - 1 - ed.cy)

C20_Witness ==
    /\ last.op = "FeedKey" /\ last.cls = "motion" /\ last.ret = "None"
    /\ ~last.counted /\ ~last.operator /\ last.mode = "Normal"
    /\ steps = 2
    /\ ed.buf = <<"a", "b", " ", "a">>
    /\ ed.pending = <<>>
    /\ ed.cx = 0 /\ ed.cy = 0

\* the action that enters a visual variant
EnterOf(target) ==
    CASE target = "Visual" -> "EnterVisual"
      [] target = "VisualLine" -> "EnterVisualLine"
      [] target = "VisualBlock" -> "EnterVisualBlock"

\* C21: entering a visual variant from a non-visual mode sets the mode to
\* that variant and the anchor to the cursor; entering a different variant
\* while in a visual mode switches the mode and keeps the anchor; entering
\* the variant that is active sets the mode to Normal and the anchor to
\* None.
C21_VisualToggle ==
    ~ed.panicked
    => \A target \in VisualModes :
       \E r \in {apply_action(ed, EnterOf(target))} :
           /\ ed.mode \notin VisualModes
                => r.mode = target /\ r.visual_anchor = <<[x |-> ed.cx, y |-> ed.cy]>>
           /\ (ed.mode \in VisualModes /\ ed.mode # target)
                => r.mode = target /\ r.visual_anchor = ed.visual_anchor
           /\ ed.mode = target
                => r.mode = "Normal" /\ r.visual_anchor = <<>>

C21_Witness ==
    /\ last.op = "FeedKey" /\ last.cls = "mode" /\ last.mode = "Visual"
    /\ ed.mode = "VisualLine"
    /\ ed.visual_anchor = <<[x |-> 0, y |-> 0]>>
    /\ ed.cx = 1 /\ ed.cy = 0

\* C22: in every reachable state the visual anchor is present exactly when
\* the mode is Visual, VisualLine or VisualBlock: every transition out of a
\* visual mode leaves the anchor None.
C22_AnchorIffVisual ==
    ~ed.panicked => ((ed.visual_anchor # <<>>) <=> (ed.mode \in VisualModes))

\* the charwise selection is empty: the anchor is the cursor
EmptySelection(e) ==
    e.mode = "Visual" /\ e.visual_anchor = <<[x |-> e.cx, y |-> e.cy]>>

\* d leaves the document, the clipboard and the undo stack of e alone
Untouched(e, d) ==
    d.buf = e.buf /\ d.clipboard = e.clipboard /\ d.undo_stack = e.undo_stack

\* C23: visual_delete and visual_yank always end with mode Normal and
\* anchor None, and visual_change with mode Insert and anchor None, also
\* when the selection is empty (charwise, anchor equal to cursor), in which
\* case the document, the clipboard and the undo stack are unchanged.
C23_VisualOpsLeaveVisual ==
    ~ed.panicked
    => \E d \in {visual_delete(ed)}, y \in {visual_yank(ed)}, c \in {visual_change(ed)} :
           /\ d.mode = "Normal" /\ d.visual_anchor = <<>>
           /\ y.mode = "Normal" /\ y.visual_anchor = <<>>
           /\ c.mode = "Insert" /\ c.visual_anchor = <<>>
           /\ EmptySelection(ed)
                => Untouched(ed, d) /\ Untouched(ed, y) /\ Untouched(ed, c)

C23_Witness ==
    /\ last.op = "VisualChange" /\ last.mode = "Visual"
    /\ steps = 2
    /\ ed.mode = "Insert" /\ ed.visual_anchor = <<>>
    /\ ed.buf = <<"a", NL, "\t">> /\ ed.cx = 0 /\ ed.cy = 0
    /\ ed.undo_stack = <<>>

\* the text the rows covered by [n]dd, [n]cc or [n]yy hold, joined by newline
CoveredLines(e) ==
    LET n == IF e.pending = <<>> THEN 1 ELSE parse_usize(e.pending)
        rows == Lines(e.buf)
    IN  JoinNL(SubSeq(rows, e.cy + 1, e.cy + Min(n, Len(rows) - e.cy)))

\* the text between the cursor of e and the target m.t, the grapheme at the
\* far end taken in when m.inclusive
SweptText(e, m) ==
    LET c == [y |-> e.cy, x |-> e.cx]
        start == IF Before(m.t, c) THEN m.t ELSE c
        end_ == IF Before(m.t, c) THEN c ELSE m.t
        from == char_index_at_col(e.buf, start.y, start.x)
        upto == char_index_at_col(e.buf, end_.y, end_.x)
                + (IF m.inclusive /\ end_.x < line_width(e.buf, end_.y) THEN 1 ELSE 0)
    IN  SubSeq(e.buf, from + 1, upto)

\* the text a Visual or VisualLine selection covers
SelectedText(e) ==
    LET a == e.visual_anchor[1]
        c == [y |-> e.cy, x |-> e.cx]
        start == IF Before(c, a) THEN c ELSE a
        end_ == IF Before(c, a) THEN a ELSE c
    IN  IF e.mode = "VisualLine"
        THEN JoinNL(SubSeq(Lines(e.buf), start.y + 1, end_.y + 1))
        ELSE SubSeq(e.buf, char_index_at_col(e.buf, start.y, start.x) + 1,
                    char_index_at_col(e.buf, end_.y, end_.x))

\* dd, cc and yy, with the count pending, put the covered lines in the clipboard
LineFormsFillClipboard ==
    AwaitingCommand(ed)
    => \A k \in {"d", "c", "y"} :
       \E r1 \in {process_normal_char(ed, k)} :
       \E r2 \in {process_normal_char(r1.ed, k)} :
           CoveredLines(ed) # <<>> => r2.ed.clipboard = CoveredLines(ed)

\* d, c and y with a motion put the swept text in the clipboard
MotionFormsFillClipboard ==
    AwaitingCommand(ed)
    => \A k \in {"d", "c", "y"}, mk \in {"w", "b", "e", "0", "$"} :
       \E r1 \in {process_normal_char(ed, k)} :
       \E m \in {motion_target(r1.ed, MotionOf(mk), r1.ed.op_pending[1].n, r1.ed.op_pending)} :
       \E r2 \in {process_normal_char(r1.ed, mk)} :
           SweptText(ed, m) # <<>> => r2.ed.clipboard = SweptText(ed, m)

\* visual delete, change and yank put the selected text in the clipboard
VisualFormsFillClipboard ==
    (/\ ~ed.panicked
     /\ ed.mode \in {"Visual", "VisualLine"}
     /\ ed.visual_anchor # <<>>
     /\ ed.visual_anchor[1].y < line_count(ed.buf))
    => \E d \in {visual_delete(ed)}, y \in {visual_yank(ed)}, c \in {visual_change(ed)} :
           SelectedText(ed) # <<>>
           => /\ d.clipboard = SelectedText(ed)
              /\ y.clipboard = SelectedText(ed)
              /\ c.clipboard = SelectedText(ed)

\* C24: every resolved delete, change or yank command that covers non-empty
\* text (dd, cc and yy with any count, d/c/y with a motion, and visual
\* delete/change/yank) overwrites the clipboard, which afterwards holds
\* exactly the text the command covered.
C24_ClipboardHoldsCoveredText ==
    /\ LineFormsFillClipboard
    /\ MotionFormsFillClipboard
    /\ VisualFormsFillClipboard

\* d differs from e in the clipboard and its kind at most, the pending
\* input aside
OnlyClipboardMayDiffer(e, d) ==
    /\ d.buf = e.buf
    /\ d.cx = e.cx /\ d.cy = e.cy
    /\ d.mode = e.mode
    /\ d.dirty = e.dirty
    /\ d.undo_stack = e.undo_stack
    /\ d.redo_stack = e.redo_stack

\* C25: a yank (y with a motion and any count, or yy) leaves the document
\* text, the cursor, the mode, the dirty flag and the undo and redo stacks
\* unchanged; only the clipboard and its kind may change.
C25_YankOnlySetsClipboard ==
    AwaitingCommand(ed)
    => \E r1 \in {process_normal_char(ed, "y")} :
       \A k \in {"y", "w", "b", "e", "0", "$"} :
       \E r2 \in {process_normal_char(r1.ed, k)} :
           /\ r1.ret = "None" /\ OnlyClipboardMayDiffer(ed, r1.ed)
           /\ r2.ret = "None" /\ OnlyClipboardMayDiffer(ed, r2.ed)

C25_Witness ==
    /\ last.op = "FeedKey" /\ last.operator /\ last.counted /\ last.cls = "motion"
    /\ steps = 3
    /\ ed.buf = <<"a", "b", " ", "a">>
    /\ ed.clipboard = <<"a", "b", " ", "a">>
    /\ ed.cx = 0 /\ ed.cy = 0 /\ ed.mode = "Normal"
    /\ ed.undo_stack = <<>> /\ ~ed.dirty

\* the lines of a text: its pieces between newlines
RECURSIVE TextLines(_)
TextLines(s) ==
    IF \A i \in 1..Len(s) : s[i] # NL THEN <<s>>
    ELSE LET k == CHOOSE i \in 1..Len(s) : s[i] = NL /\ \A j \in 1..(i - 1) : s[j] # NL
         IN  <<SubSeq(s, 1, k - 1)>> \o TextLines(SubSeq(s, k + 1, Len(s)))

\* the editor is idle in Normal mode with a non-empty Linewise clipboard
LinewiseClipboard(e) ==
    /\ Idle(e) /\ e.mode = "Normal"
    /\ e.clipboard # <<>>
    /\ e.clipboard_kind = "Linewise"

\* the rows of e with the lines of its clipboard put in before row at
PastedRows(e, at) ==
    LET rows == Lines(e.buf)
    IN  SubSeq(rows, 1, at) \o TextLines(e.clipboard) \o SubSeq(rows, at + 1, Len(rows))

\* C26: with a Linewise clipboard of k lines and the cursor on row r, p
\* inserts those lines as rows r+1 .. r+k and puts the cursor at column 0
\* of row r+1, and P inserts them as rows r .. r+k-1 and puts the cursor at
\* column 0 of row r; every line there was keeps its text and order and
\* line_count() grows by k.
C26_LinewisePaste ==
    LinewiseClipboard(ed)
    => \E a \in {process_normal_char(ed, "p")}, b \in {process_normal_char(ed, "P")} :
           /\ Lines(a.ed.buf) = PastedRows(ed, ed.cy + 1)
           /\ a.ed.cy = ed.cy + 1 /\ a.ed.cx = 0
           /\ Lines(b.ed.buf) = PastedRows(ed, ed.cy)
           /\ b.ed.cy = ed.cy /\ b.ed.cx = 0

\* C27: for any document, cursor row and count n >= 1, [n]dd followed by P
\* restores the original sequence of document lines and leaves the cursor
\* on the row it had before the dd.
C27_DdThenPasteBefore ==
    AwaitingCommand(ed)
    => \E r1 \in {process_normal_char(ed, "d")} :
       \E r2 \in {process_normal_char(r1.ed, "d")} :
       \E r3 \in {process_normal_char(r2.ed, "P")} :
           /\ Lines(r3.ed.buf) = Lines(ed.buf)
           /\ r3.ed.cy = ed.cy

\* d has the document, cursor, dirty flag and undo and redo stacks of e
SameDocumentAndHistory(e, d) ==
    /\ d.buf = e.buf
    /\ d.cx = e.cx /\ d.cy = e.cy
    /\ d.dirty = e.dirty
    /\ d.undo_stack = e.undo_stack
    /\ d.redo_stack = e.redo_stack

ExStrings ==
    { <<>>, <<"$">>, <<"$", "$">>, <<"+">>, <<"-">>, <<"w">>, <<"1", "w">>, <<"+", "w">>,
      <<"0">>, <<"1">>, <<"2">>, <<"0", "0", "7">>, <<"+", "1">>, <<"-", "1">>,
      <<"+", "0">>, <<"-", "2">>, <<"+", "2">>,
      <<"+", "+", "1">>, <<"+", "-", "1">>, <<"-", "-", "1">>, <<"-", "+", "1">>,
      USIZE_MAX, dec_add(USIZE_MAX, 1),
      <<"+">> \o ISIZE_MAX, <<"-">> \o ISIZE_MAX, <<"+">> \o dec_add(ISIZE_MAX, 1),
      <<"-", "-">> \o dec_add(ISIZE_MAX, 1) }

AllDigits(s) == s # <<>> /\ \A i \in 1..Len(s) : is_ascii_digit(s[i])

\* the documented forms: N, $, +N and -N
RecognizedForm(s) ==
    \/ s = <<"$">>
    \/ AllDigits(s)
    \/ s # <<>> /\ s[1] \in {"+", "-"} /\ AllDigits(Tail(s))

\* the row a command of a documented form names
TargetRow(e, s) ==
    LET rows == line_count(e.buf)
    IN  IF s = <<"$">> THEN rows - 1
        ELSE IF s[1] = "+" THEN Min(e.cy + min_with(strip_zeros(Tail(s)), rows), rows - 1)
        ELSE IF s[1] = "-" THEN saturating_sub(e.cy, min_with(strip_zeros(Tail(s)), e.cy))
        ELSE Min(Max(min_with(strip_zeros(s), rows), 1), rows) - 1

ExOutcome(e, s, r) ==
    IF RecognizedForm(s)
    THEN r.ret /\ ~r.ed.panicked /\ r.ed.cy = TargetRow(e, s) /\ r.ed.cx = 0
    ELSE ~r.ret /\ r.ed = e

\* C29: execute_ex_command returns true and puts the cursor on column 0 of the
\* target row for exactly the forms N, $, +N and -N (N goes to row
\* min(max(N, 1), line_count) - 1, $ to the last row, +N and -N to row
\* clamp(cy +- N, 0, line_count - 1)); for every other string it returns
\* false and changes nothing
C29_ExCommandForms ==
    ~ed.panicked =>
        \A cmd \in ExStrings, overflow_checks \in BOOLEAN :
            \E r \in {execute_ex_command(ed, cmd, overflow_checks)} : ExOutcome(ed, cmd, r)

\* ---------------------------------------------------------------------
\* C30: the document never has less than one line

\* C30: line_count() >= 1 in every reachable state, and also after
\* delete_line on any row (the only one included), after [n]dd with n up to
\* two more than the number of lines, and after a visual delete (a VisualLine
\* delete of every line included)
C30_AtLeastOneLine ==
    /\ line_count(ed.buf) >= 1
    /\ \A y \in 0..line_count(ed.buf) : line_count(delete_line(ed.buf, y)) >= 1
    /\ \A n \in 1..(line_count(ed.buf) + 2) : line_count(delete_n_lines(ed, n).buf) >= 1
    /\ ed.mode \in VisualModes /\ ~ed.panicked => line_count(visual_delete(ed).buf) >= 1

\* dd on the only line of "ab a" left the empty document, which has one line
C30_Witness ==
    /\ last.op = "FeedKey" /\ last.operator /\ steps = 2
    /\ Len(ed.undo_stack) = last.undo_len + 1
    /\ ed.clipboard = <<"a", "b", " ", "a">> /\ ed.clipboard_kind = "Linewise"
    /\ ed.buf = <<>>
    /\ line_count(ed.buf) = 1

\* ---------------------------------------------------------------------
\* C31: insert_str_at and remove_char_range

\* the texts inserted: empty, one character, a line break alone, a tab and a
\* wide character, and text around a line break
InsertTexts == { <<>>, <<"b">>, <<NL>>, <<"\t", WIDE>>, <<"a", NL, "b">> }

\* C31: for every document, every row of it, every column up to the row's
\* width and every text t, insert_str_at(row, column, t) followed by
\* remove_char_range(i, i + the number of characters of t), with
\* i = char_index_at_col(row, column) taken before the insertion, gives the
\* document back
C31_InsertRemoveRoundTrip ==
    \A y \in 0..(line_count(ed.buf) - 1) :
        \A col \in 0..line_width(ed.buf, y), t \in InsertTexts :
            \E i \in {char_index_at_col(ed.buf, y, col)} :
                remove_char_range(insert_str_at(ed.buf, y, col, t), i, i + Len(t)) = ed.buf

\* p has just put a Charwise clipboard into the document with insert_str_at,
\* and removing that span gives the text of the snapshot taken before it
C31_Witness ==
    /\ last.op = "FeedKey" /\ last.cls = "edit" /\ ~ed.panicked
    /\ ed.clipboard # <<>> /\ ed.clipboard_kind = "Charwise"
    /\ Len(ed.undo_stack) = last.undo_len + 1
    /\ \E snap \in {ed.undo_stack[Len(ed.undo_stack)]} :
          \E i \in {char_index_at_col(snap.text, snap.cy, snap.cx)} :
              /\ ed.buf = insert_str_at(snap.text, snap.cy, snap.cx, ed.clipboard)
              /\ ed.buf # snap.text
              /\ remove_char_range(ed.buf, i, i + Len(ed.clipboard)) = snap.text

\* ---------------------------------------------------------------------
\* C32: display columns

\* one-line documents with tabs after narrow and wide characters
TabRows == { <<"a", "\t", "b">>, <<WIDE, "\t", WIDE>>, <<"\t", "a", "b", WIDE, "\t">> }

\* the width the claim gives a grapheme that starts at column c
WidthAt(c, g) == IF g = "\t" THEN 4 - (c % 4) ELSE char_width(g)

\* the column where the k-th grapheme of row starts; k = Len(row) + 1 gives
\* the sum of the widths
RECURSIVE StartCol(_, _)
StartCol(row, k) ==
    IF k = 1 THEN 0
    ELSE Bind(StartCol(row, k - 1), LAMBDA c : c + WidthAt(c, row[k - 1]))

\* the claim on row y of rope
ColumnsOf(rope, y) ==
    \E row \in {line_string(rope, y)} :
        /\ \A k \in 1..Len(row) :
               /\ gw_at(StartCol(row, k), row[k]) = WidthAt(StartCol(row, k), row[k])
               /\ gw_at(StartCol(row, k), row[k]) >= 1
               /\ next_col(rope, StartCol(row, k), y) = StartCol(row, k + 1)
               /\ prev_col(rope, StartCol(row, k + 1), y) = StartCol(row, k)
        /\ line_width(rope, y) = StartCol(row, Len(row) + 1)
        /\ next_col(rope, line_width(rope, y), y) = line_width(rope, y)
        /\ prev_col(rope, 0, y) = 0

\* C32: a tab that starts at column c is 4 - (c mod 4) wide and every other
\* grapheme has its own width, at least 1; line_width is the sum of the
\* widths; from the start column of a grapheme next_col gives the start
\* column of the next one (the line width after the last) and prev_col the
\* start column of the one before (0 at column 0); "a<tab>b" is 5 wide,
\* next_col steps 0, 1, 4, 5 and prev_col steps 4, 1, 0
C32_TabWidthAndColumns ==
    /\ \A rope \in {ed.buf} \cup TabRows :
           \A y \in 0..(line_count(rope) - 1) : ColumnsOf(rope, y)
    /\ \E b \in {<<"a", "\t", "b">>} :
           /\ line_width(b, 0) = 5
           /\ next_col(b, 0, 0) = 1 /\ next_col(b, 1, 0) = 4 /\ next_col(b, 4, 0) = 5
           /\ prev_col(b, 5, 0) = 4 /\ prev_col(b, 4, 0) = 1 /\ prev_col(b, 1, 0) = 0

\* Backspace at the start of the second row of "a\n<tab>" joined it to the
\* first: the tab starts at column 1 and is 3 wide
C32_Witness ==
    /\ last.op = "DeleteChar" /\ ed.mode = "Insert"
    /\ ed.buf = <<"a", "\t">> /\ ed.cy = 0 /\ ed.cx = 1
    /\ line_width(ed.buf, 0) = 4
    /\ next_col(ed.buf, ed.cx, 0) = 4 /\ prev_col(ed.buf, 4, 0) = 1

\* ---------------------------------------------------------------------
\* C33: word motions of the buffer

SetMin(S) == CHOOSE m \in S : \A n \in S : m <= n
SetMax(S) == CHOOSE m \in S : \A n \in S : m >= n

\* the columns where the words of row y start, and where they end
WordStartCols(rope, y) ==
    { byte_to_col_in_line(rope, y, word_segs(line_string(rope, y))[k].i) :
          k \in 1..Len(word_segs(line_string(rope, y))) }
WordEndCols(rope, y) ==
    { byte_to_col_in_line(rope, y, word_segs(line_string(rope, y))[k].end_) :
          k \in 1..Len(word_segs(line_string(rope, y))) }

\* the nearest member of S on the asked side of col, or col when there is none
NearestAfter(S, col) ==
    IF \E c \in S : c > col THEN SetMin({c \in S : c > col}) ELSE col
NearestBefore(S, col) ==
    IF \E c \in S : c < col THEN SetMax({c \in S : c < col}) ELSE col

\* C33: next_word_start, prev_word_start and end_of_word return the column of
\* the nearest word boundary of the row in their direction, and the column
\* they were given when the row has no such boundary
C33_WordMotionsOrOriginalColumn ==
    \A y \in 0..(line_count(ed.buf) - 1) :
        \A col \in 0..line_width(ed.buf, y) :
            /\ next_word_start(ed.buf, col, y) = NearestAfter(WordStartCols(ed.buf, y), col)
            /\ prev_word_start(ed.buf, col, y) = NearestBefore(WordStartCols(ed.buf, y), col)
            /\ end_of_word(ed.buf, col, y) = NearestAfter(WordEndCols(ed.buf, y), col)

\* ---------------------------------------------------------------------
\* C34: counted word motions without an operator

Cursor(e) == [y |-> e.cy, x |-> e.cx]

\* the positions where the words of the document start, and where they end
WordStarts(rope) ==
    UNION { { [y |-> y, x |-> x] : x \in WordStartCols(rope, y) } :
                y \in 0..(line_count(rope) - 1) }
WordEnds(rope) ==
    UNION { { [y |-> y, x |-> x] : x \in WordEndCols(rope, y) } :
                y \in 0..(line_count(rope) - 1) }

\* C34: [n]w and [n]e leave the cursor at or after the position it had, [n]b
\* at or before it, and when the document has no further word boundary in
\* the direction of the motion (b at row 0, column 0) the cursor stays where
\* it is
C34_WordMotionKeepsDirection ==
    AwaitingCommand(ed)
    => \E c \in {Cursor(ed)} :
          /\ \E r \in {process_normal_char(ed, "w")} :
                /\ ~Before(Cursor(r.ed), c)
                /\ (\A p \in WordStarts(ed.buf) : ~Before(c, p)) => Cursor(r.ed) = c
          /\ \E r \in {process_normal_char(ed, "e")} :
                /\ ~Before(Cursor(r.ed), c)
                /\ (\A p \in WordEnds(ed.buf) : ~Before(c, p)) => Cursor(r.ed) = c
          /\ \E r \in {process_normal_char(ed, "b")} :
                /\ ~Before(c, Cursor(r.ed))
                /\ (\A p \in WordStarts(ed.buf) : ~Before(p, c)) => Cursor(r.ed) = c

\* ---------------------------------------------------------------------
\* C35: yy and the kind of the clipboard

\* the rows [n]yy yanks from the editor e
YankedRows(e) ==
    LET n == IF e.pending = <<>> THEN 1 ELSE parse_usize(e.pending)
        rows == Lines(e.buf)
    IN  SubSeq(rows, e.cy + 1, e.cy + Min(n, Len(rows) - e.cy))

\* C35: after [n]yy the clipboard is tagged Linewise whatever its kind was
\* before, and a following p inserts the yanked lines as new rows below the
\* cursor row
C35_YankLineIsLinewise ==
    AwaitingCommand(ed) /\ ed.cy < line_count(ed.buf)
    => \E r1 \in {process_normal_char(ed, "y")} :
       \E r2 \in {process_normal_char(r1.ed, "y")} :
           /\ r2.ed.clipboard_kind = "Linewise"
           /\ r2.ed.clipboard # <<>>
              => \E r3 \in {process_normal_char(r2.ed, "p")} :
                     Lines(r3.ed.buf)
                         = SubSeq(Lines(ed.buf), 1, ed.cy + 1) \o YankedRows(ed)
                           \o SubSeq(Lines(ed.buf), ed.cy + 2, line_count(ed.buf))

\* ---------------------------------------------------------------------
\* C36: the pending timer

\* C36: whenever process_pending_timeout returns with an empty pending
\* sequence, pending_started is None, also when only an operator is pending
C36_TimerNotLeftArmed ==
    ~ed.panicked
    => \E r \in {process_pending_timeout(ed)} :
           (~r.ed.panicked /\ r.ed.pending = <<>>) => ~r.ed.pending_started

\* ---------------------------------------------------------------------
\* C37: the dirty flag

\* C37: in every reachable state in which the document text differs from the
\* text at the last successful open() or save(), dirty is true, also when
\* undo() or redo() made the difference after a save
C37_DirtyCoversChanges ==
    ~ed.panicked => (to_string(ed.buf) # last.saved => ed.dirty)

\* ---------------------------------------------------------------------
\* C38: typing a character or a line break and deleting it again

\* C38: in Insert mode, with the cursor on a row of the document and at a
\* column no greater than the row's width, insert_char of a character of
\* width 1 followed by delete_char gives back the document text and the
\* cursor, and so does insert_newline followed by delete_char
C38_InsertThenDeleteRestores ==
    (~ed.panicked /\ ed.mode = "Insert" /\ C1_CursorInBounds)
    => /\ \A ch \in {"a", " "} :
              \E d \in {delete_char(insert_char(ed, ch))} :
                  d.buf = ed.buf /\ d.cx = ed.cx /\ d.cy = ed.cy
       /\ \E d \in {delete_char(insert_newline(ed))} :
              d.buf = ed.buf /\ d.cx = ed.cx /\ d.cy = ed.cy

\* ---------------------------------------------------------------------
\* C39: snapshots and changes of the text

\* a command pushed a snapshot and left the document text as it was
SnapshotWithoutChange ==
    /\ last'.op \notin {"Undo", "Redo"}
    /\ Len(ed'.undo_stack) > Len(ed.undo_stack)
    /\ ed'.buf = ed.buf

\* undo() returned true and the document text is as it was
UndoWithoutChange ==
    last'.op = "Undo" /\ last'.ret = "true" /\ ed'.buf = ed.buf

\* C39: the undo stack grows only when the document text changes: a command
\* that changes nothing pushes no snapshot, and every undo() that returns
\* true restores a text different from the current one
C39_SnapshotOnlyOnChange ==
    [][~ed'.panicked => ~SnapshotWithoutChange /\ ~UndoWithoutChange]_vars

\* ---------------------------------------------------------------------
\* C40: the counted-group flag

\* C40: count_group_active is false whenever an operation of the editor has
\* returned
C40_CountGroupClosed == ~ed.panicked => ~ed.count_group_active

\* 2x on "ab a" has run as one counted group: one snapshot for the two
\* deletions, and the group is closed
C40_Witness ==
    /\ last.op = "FeedKey" /\ last.cls = "edit" /\ last.counted /\ ~last.operator
    /\ steps = 2 /\ ~ed.panicked
    /\ ed.buf = <<" ", "a">>
    /\ Len(ed.undo_stack) = 1 /\ ed.undo_stack[1].text = <<"a", "b", " ", "a">>
    /\ ~ed.count_group_active

====
